---- MODULE Spec2Model ----
(***************************************************************************)
(* Pulse: activity ledger (DataManager), daemon supervisor (DaemonManager) *)
(* and session monitor (SessionManager).                                   *)
(*                                                                         *)
(* Time is counted in seconds since local midnight of day 0 (the code      *)
(* keeps milliseconds; every instant of the model is a whole second, so    *)
(* floor(ms / 60000) = floor(s / 60)).                                     *)
(***************************************************************************)
EXTENDS Integers, Sequences, FiniteSets, TLC

(***************************************************************************)
(* Bounds of the model.                                                    *)
(***************************************************************************)
MaxIds == 3

(***************************************************************************)
(* Program constants.                                                      *)
(***************************************************************************)
SecondsPerMinute == 60
SecondsPerDay == 24 * 60 * 60

NoValue == 0 - 1

Max(a, b) == IF a >= b THEN a ELSE b

\* Clock instants the ledger operations draw their end timestamps from:
\* 09:00, 09:30 and 10:15 of day 0, and 00:01:30 of day 1 (not on a minute
\* boundary relative to the others, and on another day).
T0900 == 9 * 3600
T0930 == 9 * 3600 + 30 * 60
T1015 == 10 * 3600 + 15 * 60
TNextDay == SecondsPerDay + 90
Times == {T0900, T0930, T1015, TNextDay}

\* 09:00, 09:30 and the next day: the instants of the edit sessions.
EditTimes == {T0900, T0930, TNextDay}

Descriptions == {"A", "B", "C"}
\* The descriptions of the edit sessions.
EditDescriptions == {"A"}
OverrideMinutes == {20}

(***************************************************************************)
(* Activity                                                                *)
(***************************************************************************)
\* Activity constructor: timestampStart from the duration, if one is given.
NewActivity(activity, timestampEnd, durationMinutes, id) ==
    [id |-> id,
     timestampEnd |-> timestampEnd,
     activity |-> activity,
     timestampStart |->
        IF durationMinutes # NoValue /\ durationMinutes > 0
        THEN timestampEnd - durationMinutes * SecondsPerMinute
        ELSE timestampEnd]

\* new Date(undefined) is an Invalid Date: an object, and as such truthy;
\* its time value is NaN, and every comparison with NaN is false.
InvalidDate == 0 - 2
DateLe(a, b) == a # InvalidDate /\ b # InvalidDate /\ a <= b

\* get durationMinutes()
DurationMinutes(a) == (a.timestampEnd - a.timestampStart) \div SecondsPerMinute

\* A plausible bug: the setter leaves timestampStart as it is.
SetDurationMinutesIgnored(a, minutes) == a

\* set durationMinutes(minutes)
SetDurationMinutes(a, minutes) ==
    [a EXCEPT !.timestampStart = a.timestampEnd - minutes * SecondsPerMinute]

(***************************************************************************)
(* DataManager: the in-memory ledger operations, as functions of the       *)
(* ledger (a sequence of Activity records).                                *)
(***************************************************************************)
RECURSIVE BinarySearch(_, _, _, _)
BinarySearch(acts, timestampEnd, left, right) ==
    IF left < right
    THEN LET mid == (left + right) \div 2
         IN  IF DateLe(acts[mid + 1].timestampEnd, timestampEnd)
             THEN BinarySearch(acts, timestampEnd, mid + 1, right)
             ELSE BinarySearch(acts, timestampEnd, left, mid)
    ELSE left

\* A plausible bug: the new entry always goes to the tail.
FindInsertIndexTail(acts, timestampEnd) == Len(acts)

\* findInsertIndex: 0-based position at which timestampEnd is inserted.
FindInsertIndex(acts, timestampEnd) == BinarySearch(acts, timestampEnd, 0, Len(acts))

\* A plausible bug: splice(index, 1, a) overwrites the entry at index.
SpliceInOverwrite(acts, index, a) ==
    IF index < Len(acts) THEN [acts EXCEPT ![index + 1] = a] ELSE Append(acts, a)

\* Array.splice(index, 0, a) and Array.splice(index, 1), index 0-based.
SpliceIn(acts, index, a) ==
    SubSeq(acts, 1, index) \o <<a>> \o SubSeq(acts, index + 1, Len(acts))
SpliceOut(acts, index) ==
    SubSeq(acts, 1, index) \o SubSeq(acts, index + 2, Len(acts))

\* findIndex(a => a.id === id), 0-based, -1 when absent.
FindIndexById(acts, id) ==
    IF \E i \in 1..Len(acts) : acts[i].id = id
    THEN (CHOOSE i \in 1..Len(acts) :
             acts[i].id = id /\ \A j \in 1..(i - 1) : acts[j].id # id) - 1
    ELSE NoValue

\* dayStart.setHours(0, 0, 0, 0)
DayStart(t) == t - (t % SecondsPerDay)

\* A plausible bug: with no previous entry the start is the end itself.
PreviousEndTimeNoDayStart(acts, timestampEnd) ==
    LET earlier == {acts[i].timestampEnd : i \in 1..Len(acts)} \cap 0..(timestampEnd - 1)
    IN  IF earlier # {}
        THEN CHOOSE t \in earlier : \A u \in earlier : u <= t
        ELSE timestampEnd

\* addActivity: the end of the most recent entry strictly before timestampEnd,
\* or the start of timestampEnd's day when there is none.
PreviousEndTime(acts, timestampEnd) ==
    LET earlier == {acts[i].timestampEnd : i \in 1..Len(acts)} \cap 0..(timestampEnd - 1)
    IN  IF earlier # {}
        THEN CHOOSE t \in earlier : \A u \in earlier : u <= t
        ELSE DayStart(timestampEnd)

\* The Activity addActivity builds before inserting it.
BuildActivity(acts, id, activity, timestampEnd, durationMinutes) ==
    LET newActivity == NewActivity(activity, timestampEnd, durationMinutes, id)
    IN  IF durationMinutes = NoValue
        THEN SetDurationMinutes(newActivity,
                Max(0, (timestampEnd - PreviousEndTime(acts, timestampEnd))
                          \div SecondsPerMinute))
        ELSE newActivity

\* addActivity, up to the save: the ledger after the insertion.
AddActivity(acts, id, activity, timestampEnd, durationMinutes) ==
    LET newActivity == BuildActivity(acts, id, activity, timestampEnd, durationMinutes)
    IN  SpliceIn(acts, FindInsertIndex(acts, timestampEnd), newActivity)

\* One iteration of the loop of recalculateDurations, at 0-based index i.
RecalcStep(acts, i) ==
    LET withPrev ==
            IF i >= 1
            THEN [acts EXCEPT ![i] = SetDurationMinutes(acts[i],
                     Max(0, (acts[i + 1].timestampEnd - acts[i].timestampEnd)
                               \div SecondsPerMinute))]
            ELSE acts
    IN  IF i = Len(acts) - 1
        THEN [withPrev EXCEPT ![i + 1] = SetDurationMinutes(withPrev[i + 1], 0)]
        ELSE withPrev

RECURSIVE RecalcLoop(_, _)
RecalcLoop(acts, i) ==
    IF i < Len(acts) THEN RecalcLoop(RecalcStep(acts, i), i + 1) ELSE acts

\* A plausible bug: the recompute is forgotten.
RecalculateDurationsSkipped(acts, fromIndex) == acts

\* recalculateDurations(fromIndex)
RecalculateDurations(acts, fromIndex) == RecalcLoop(acts, Max(0, fromIndex - 1))

\* The patch of updateActivity: each field is NoValue when not provided.
Patch(activity, timestampEnd, durationMinutes) ==
    [activity |-> activity, timestampEnd |-> timestampEnd,
     durationMinutes |-> durationMinutes]
NoText == "<undefined>"

\* updateActivity(id, updates) on a ledger that holds id.
UpdateActivity(acts, id, updates) ==
    LET activityIndex == FindIndexById(acts, id)
        a0 == acts[activityIndex + 1]
        a1 == IF updates.activity # NoText
              THEN [a0 EXCEPT !.activity = updates.activity] ELSE a0
        a2 == IF updates.timestampEnd # NoValue
              THEN [a1 EXCEPT !.timestampEnd = updates.timestampEnd] ELSE a1
        a3 == IF updates.durationMinutes # NoValue
              THEN SetDurationMinutes(a2, Max(0, updates.durationMinutes)) ELSE a2
        removed == SpliceOut(acts, activityIndex)
        moved == IF updates.timestampEnd # NoValue
                 THEN SpliceIn(removed, FindInsertIndex(removed, updates.timestampEnd), a3)
                 ELSE [acts EXCEPT ![activityIndex + 1] = a3]
    IN  IF updates.timestampEnd # NoValue
        THEN RecalculateDurations(moved, 0)
        ELSE moved

\* A plausible bug: the entry is removed and nothing is recomputed.
DeleteActivityNoRecalc(acts, id) == SpliceOut(acts, FindIndexById(acts, id))

\* deleteActivity(id) on a ledger that holds id.
DeleteActivity(acts, id) ==
    RecalculateDurations(SpliceOut(acts, FindIndexById(acts, id)), 0)


(***************************************************************************)
(* Persistence: the canonical serialized form of the ledger.               *)
(***************************************************************************)
\* A plausible bug: the text keeps the calendar day and drops the time.
IsoStringDateOnly(t) == <<t \div SecondsPerDay, 0>>

\* Date.toISOString(): the calendar day and the time of day, as text.
IsoString(t) == <<t \div SecondsPerDay, t % SecondsPerDay>>
\* A field a stored record does not have reads undefined.
NoIso == <<>>

\* new Date(isoString)
ParseIso(s) == IF s = NoIso THEN InvalidDate ELSE s[1] * SecondsPerDay + s[2]

\* Activity.toJSON()
ToJSON(a) ==
    [id |-> a.id,
     timestampStart |-> IsoString(a.timestampStart),
     timestampEnd |-> IsoString(a.timestampEnd),
     activity |-> a.activity]

\* A plausible bug: the stored timestampStart is not restored.
FromJSONNoStart(data) ==
    NewActivity(data.activity, ParseIso(data.timestampEnd), NoValue, data.id)

\* Activity.fromJSON(data)
FromJSON(data) ==
    [NewActivity(data.activity, ParseIso(data.timestampEnd), NoValue, data.id)
        EXCEPT !.timestampStart = ParseIso(data.timestampStart)]

\* saveActivities: the data written to the activities file.
SerializeActivities(acts) == [i \in 1..Len(acts) |-> ToJSON(acts[i])]

\* The uuid the Activity constructor draws for the i-th record when the
\* record has no id (this.id = id || uuidv4()): an id no other entry has.
Uuid(i) == 0 - 2 - i

\* loadActivities: the ledger read from the activities file.
LoadActivities(data) ==
    [i \in 1..Len(data) |->
        LET a == FromJSON(data[i])
        IN  IF a.id = NoValue THEN [a EXCEPT !.id = Uuid(i)] ELSE a]

\* activity && activity.id && activity.timestampStart &&
\* activity.timestampEnd && activity.activity, on the Activity objects
\* loadActivities built: the two dates are Date objects.
ValidActivity(a) == a.id # NoValue /\ a.activity # ""

\* loadActivitiesWithIntegrityCheck: the entries of loadActivities() that
\* pass the filter.
LoadActivitiesWithIntegrityCheck(data) == SelectSeq(LoadActivities(data), ValidActivity)

(***************************************************************************)
(* Session markers                                                         *)
(***************************************************************************)
PauseLocked == "Automatically paused (screen locked)"
PauseLoggedOut == "Automatically paused (user logged out)"
Resumed == "Automatically resumed (screen unlocked)"

\* activity.includes('Automatically paused')
IsPause(a) == a.activity \in {PauseLocked, PauseLoggedOut}
\* activity.includes('Automatically resumed')
IsResume(a) == a.activity = Resumed

\* getRecentActivities(hours) at the time currentTime
GetRecentActivities(acts, hours, currentTime) ==
    SelectSeq(acts, LAMBDA a : a.timestampEnd >= currentTime - hours * 3600)

\* lastActivity && lastActivity.activity.includes('Automatically paused')
LastIsPause(acts, currentTime) ==
    LET recent == GetRecentActivities(acts, 3, currentTime)
    IN  Len(recent) > 0 /\ IsPause(recent[Len(recent)])

LastIsResume(acts, hours, currentTime) ==
    LET recent == GetRecentActivities(acts, hours, currentTime)
    IN  Len(recent) > 0 /\ IsResume(recent[Len(recent)])

\* startDaemon: a recent lock pause that no resume has followed yet
NeedsResumeAtStartup(acts, currentTime) ==
    LET recent == GetRecentActivities(acts, 5, currentTime)
    IN  /\ \E i \in 1..Len(recent) : recent[i].activity = PauseLocked
        /\ ~LastIsResume(acts, 5, currentTime)

(***************************************************************************)
(* The emergency pre-shutdown backup                                       *)
(***************************************************************************)
\* The session flags of a config object that is not there.
NoConfig ==
    [autoStop |-> FALSE, autoStartOnUnlock |-> FALSE, autoStopOnLock |-> FALSE]

\* newer: the backup's timestamp is later than the activities file's mtime.
NoEmergency ==
    [exists |-> FALSE, newer |-> FALSE, activities |-> <<>>, activitiesCount |-> 0,
     config |-> NoConfig]

\* ensureDataPersistence: the emergencyBackup object written to disk.
EmergencyBackup(acts, cfg, newer) ==
    [exists |-> TRUE, newer |-> newer,
     activities |-> SerializeActivities(acts), activitiesCount |-> Len(acts),
     config |-> cfg]

\* Any write of the activities file makes it at least as recent as the backup.
AfterActivitiesWrite(em) == [em EXCEPT !.newer = FALSE]

\* A plausible bug: the decision does not look at the daemon.
ShouldRecoverIgnoringDaemon(acts, em, daemonRunning) ==
    em.newer \/ Len(acts) < em.activitiesCount - 1

\* A plausible bug: the decision does not compare the record counts.
ShouldRecoverMtimeOnly(acts, em, daemonRunning) == ~daemonRunning /\ em.newer

\* The recovery decision of checkEmergencyRecovery.
ShouldRecover(acts, em, daemonRunning) ==
    /\ ~daemonRunning
    /\ (em.newer \/ Len(acts) < em.activitiesCount - 1)

\* A plausible bug: the emergency file is removed whatever the daemon does.
CheckEmergencyRecoveryAlwaysCleans(acts, cfg, file, em, daemonRunning) ==
    LET recovered == LoadActivities(em.activities)
    IN  IF ~em.exists
        THEN [activities |-> acts, config |-> cfg, file |-> file, emergency |-> em,
              saved |-> FALSE]
        ELSE IF ShouldRecover(acts, em, daemonRunning)
        THEN [activities |-> recovered, config |-> em.config,
              file |-> SerializeActivities(recovered),
              emergency |-> NoEmergency, saved |-> TRUE]
        ELSE [activities |-> acts, config |-> cfg, file |-> file,
              emergency |-> NoEmergency, saved |-> FALSE]

\* checkEmergencyRecovery, given the ledger and the config just loaded;
\* yields the ledger, the config, the activities file and the emergency file
\* after the check, and whether the recovered data was saved.
CheckEmergencyRecovery(acts, cfg, file, em, daemonRunning) ==
    LET recovered == LoadActivities(em.activities)
    IN  IF ~em.exists
        THEN [activities |-> acts, config |-> cfg, file |-> file, emergency |-> em,
              saved |-> FALSE]
        ELSE IF ShouldRecover(acts, em, daemonRunning)
        THEN [activities |-> recovered, config |-> em.config,
              file |-> SerializeActivities(recovered),
              emergency |-> NoEmergency, saved |-> TRUE]
        ELSE [activities |-> acts, config |-> cfg, file |-> file,
              emergency |-> IF ~daemonRunning THEN NoEmergency ELSE em,
              saved |-> FALSE]

\* new DataManager(): load with integrity check, then emergency recovery.
NewDataManager(cfg, file, em, daemonRunning) ==
    CheckEmergencyRecovery(LoadActivitiesWithIntegrityCheck(file), cfg, file, em,
                           daemonRunning)

(***************************************************************************)
(* The persistence protocol: backup, write, verify, restore                *)
(***************************************************************************)
\* The number of backups of the activities file followed: when only writes
\* that succeed are looked at, and when faults are.
MaxBackups == 6
MaxStoreBackups == 2
\* The number of entries logged when faults are looked at.
MaxStoreIds == 2

\* A file of the backup directory: valid when it parses as JSON.
NoBackup == [valid |-> FALSE, data |-> <<>>]

\* The activities file (missing, ok, or corrupt: not valid JSON) and the
\* activities_* files of the backup directory: how many there are and the
\* one that sorts last, the only one ever read.
NoStore == [file |-> "missing", backupCount |-> 0, latest |-> NoBackup]

\* What can go wrong with a write: the file read back differs from the
\* data written, or is not there.
Faults == {"none", "mismatch", "missing"}

\* The text of a file that holds no JSON array.
NoData == <<>>

\* createBackup(activitiesFile, 'activities'): a timestamped copy of the
\* file when it exists.  Nothing is ever removed from the directory.
CreateBackup(st, file) ==
    IF st.file = "missing" THEN st
    ELSE [st EXCEPT !.backupCount = @ + 1,
                    !.latest = [valid |-> st.file = "ok", data |-> file]]

\* loadActivities(): the records of the file; the empty ledger when the file
\* is missing or readJsonSync throws.
ReadActivities(status, data) ==
    IF status = "ok" THEN [threw |-> FALSE, activities |-> LoadActivities(data)]
    ELSE [threw |-> FALSE, activities |-> <<>>]

\* A plausible bug: the file is copied back and the ledger is not reloaded.
RestoreFromBackupNoReload(acts, st, file) ==
    IF st.backupCount > 0
    THEN [restored |-> TRUE, activities |-> acts, file |-> st.latest.data,
          store |-> [st EXCEPT !.file = IF st.latest.valid THEN "ok" ELSE "corrupt"]]
    ELSE [restored |-> FALSE, activities |-> acts, file |-> file, store |-> st]

\* restoreFromBackup('activities'): the backup that sorts last is copied
\* over the activities file and the ledger is reloaded from it.
RestoreFromBackup(acts, st, file) ==
    IF st.backupCount > 0
    THEN [restored |-> TRUE,
          activities |-> ReadActivities(IF st.latest.valid THEN "ok" ELSE "corrupt",
                                        st.latest.data).activities,
          file |-> st.latest.data,
          store |-> [st EXCEPT !.file = IF st.latest.valid THEN "ok" ELSE "corrupt"]]
    ELSE [restored |-> FALSE, activities |-> acts, file |-> file, store |-> st]

\* activity.toJSON() throws for some entry: toISOString() of an Invalid
\* Date is a RangeError, raised before anything is written.
ToJSONThrows(acts) ==
    \E i \in 1..Len(acts) :
        acts[i].timestampStart = InvalidDate \/ acts[i].timestampEnd = InvalidDate

\* saveActivities(): createBackup, writeJsonSync, verifyFileWrite and, when
\* one of them throws, restoreFromBackup.  It returns normally either way;
\* outcome tells what happened inside.
SaveActivities(acts, st, file, fault) ==
    LET backed == CreateBackup(st, file)
    IN  IF ToJSONThrows(acts)
        THEN LET r == RestoreFromBackup(acts, backed, file)
             IN  [activities |-> r.activities, file |-> r.file, store |-> r.store,
                  outcome |-> IF r.restored THEN "restored" ELSE "kept"]
        ELSE IF fault = "none"
        THEN [activities |-> acts, file |-> SerializeActivities(acts),
              store |-> [backed EXCEPT !.file = "ok"], outcome |-> "saved"]
        ELSE LET failed == [backed EXCEPT !.file = IF fault = "missing"
                                                   THEN "missing" ELSE "corrupt"]
                 r == RestoreFromBackup(acts, failed, NoData)
             IN  [activities |-> r.activities, file |-> r.file, store |-> r.store,
                  outcome |-> IF r.restored THEN "restored" ELSE "kept"]

\* The number of backups of config.json followed.
MaxConfigBackups == 2

\* loadConfig(): defaultConfig, here its session flags.
DefaultConfig ==
    [autoStop |-> TRUE, autoStartOnUnlock |-> TRUE, autoStopOnLock |-> TRUE]

\* The keys of the config object, and a key that is not one of them.
ConfigKeys == DOMAIN DefaultConfig
UnknownKey == "volume"

\* config.json (missing, ok or corrupt, and the object it holds) and the
\* config_* files of the backup directory: their number and the last one.
NoConfigStore ==
    [file |-> "missing", data |-> DefaultConfig, backupCount |-> 0,
     latest |-> [valid |-> FALSE, data |-> DefaultConfig]]

\* loadConfig(): {...defaultConfig, ...config} of the file; defaultConfig
\* when the file is missing or does not parse.
LoadConfig(cst) == IF cst.file = "ok" THEN cst.data ELSE DefaultConfig

\* createBackup(configFile, 'config')
CreateConfigBackup(cst) ==
    IF cst.file = "missing" THEN cst
    ELSE [cst EXCEPT !.backupCount = @ + 1,
                     !.latest = [valid |-> cst.file = "ok", data |-> cst.data]]

\* restoreFromBackup('config'): the last backup is copied over config.json
\* and the config is reloaded from it.
RestoreConfigFromBackup(cfg, cst) ==
    LET copied == [cst EXCEPT !.file = IF cst.latest.valid THEN "ok" ELSE "corrupt",
                              !.data = cst.latest.data]
    IN  IF cst.backupCount > 0
        THEN [restored |-> TRUE, config |-> LoadConfig(copied), store |-> copied]
        ELSE [restored |-> FALSE, config |-> cfg, store |-> cst]

\* saveConfig(): createBackup, writeJsonSync, verifyFileWrite and, when one
\* of them throws, restoreFromBackup.  It returns normally either way.
SaveConfig(cfg, cst, fault) ==
    LET backed == CreateConfigBackup(cst)
    IN  IF fault = "none"
        THEN [config |-> cfg, store |-> [backed EXCEPT !.file = "ok", !.data = cfg],
              outcome |-> "saved"]
        ELSE LET failed == [backed EXCEPT !.file = IF fault = "missing"
                                                   THEN "missing" ELSE "corrupt"]
                 r == RestoreConfigFromBackup(cfg, failed)
             IN  [config |-> r.config, store |-> r.store,
                  outcome |-> IF r.restored THEN "restored" ELSE "kept"]

\* setConfig(key, value): what it returns, and the config and the files
\* after it.
SetConfig(cfg, cst, key, value, fault) ==
    IF key \in DOMAIN cfg
    THEN LET sv == SaveConfig([cfg EXCEPT ![key] = value], cst, fault)
         IN  [returned |-> TRUE, config |-> sv.config, store |-> sv.store,
              save |-> sv.outcome]
    ELSE [returned |-> FALSE, config |-> cfg, store |-> cst, save |-> "none"]

\* getConfig(key), defaultValue null
GetConfig(cfg, key) == IF key \in DOMAIN cfg THEN cfg[key] ELSE NoValue

\* A plausible bug: an unknown id is not checked and splice(-1, 1) removes
\* the last entry.
TryDeleteUnchecked(acts, id) ==
    [found |-> TRUE,
     activities |-> RecalculateDurations(SpliceOut(acts, Len(acts) - 1), 0)]

\* deleteActivity(id): throws 'Activity not found' for an unknown id.
TryDelete(acts, id) ==
    IF FindIndexById(acts, id) = 0 - 1
    THEN [found |-> FALSE, activities |-> acts]
    ELSE [found |-> TRUE, activities |-> DeleteActivity(acts, id)]

\* updateActivity(id, updates): throws 'Activity not found' for an unknown id.
TryUpdate(acts, id, updates) ==
    IF FindIndexById(acts, id) = 0 - 1
    THEN [found |-> FALSE, activities |-> acts]
    ELSE [found |-> TRUE, activities |-> UpdateActivity(acts, id, updates)]

(***************************************************************************)
(* Processes, the PID file and the process table                           *)
(***************************************************************************)
MaxSpawns == 2
Pids == 1..MaxSpawns
NoPid == 0
Callers == {"cli1", "cli2"}
SessionCallers == {"cli1"}

Null == "null"
Samples == {"true", "false"}

\* A daemon child: "spawned" until its start command has run, "running"
\* once startDaemon has published the PID file, "persisting" inside
\* ensureDataPersistence, "terminating" once its SIGTERM handler runs stop().
LiveStates == {"spawned", "running", "persisting", "terminating"}

NoProc ==
    [state |-> "none", activities |-> <<>>, lastSessionState |-> Null,
     lastLockState |-> Null, job |-> FALSE, statusInterval |-> FALSE,
     lockCheck |-> "idle"]
DeadProc == [NoProc EXCEPT !.state = "dead"]
SpawnedProc == [NoProc EXCEPT !.state = "spawned"]

\* ps aux | grep "pulse.*--daemon" | grep -v grep
PsDaemons(p) == {d \in Pids : p[d].state \in LiveStates}

\* process.kill(pid, 0) succeeds
ProcessExists(p, pid) == pid \in Pids /\ p[pid].state \in LiveStates

\* DataManager.isDaemonRunning(): the PID file names a live process.
IsDaemonRunning(p, pf) == pf # NoPid /\ ProcessExists(p, pf)

\* A plausible bug: detection by the PID file alone.
IsAlreadyRunningPidFileOnly(p, pf) == pf # NoPid /\ ProcessExists(p, pf)

\* DaemonManager.isAlreadyRunning(): any daemon in the process table, else
\* the PID file naming a live process.
IsAlreadyRunning(p, pf) ==
    PsDaemons(p) # {} \/ (pf # NoPid /\ ProcessExists(p, pf))

\* isAlreadyRunning / cleanupStaleDaemons remove a PID file whose process is
\* gone (isAlreadyRunning only when it gets as far as the PID file).
\* An isAlreadyRunning that never removes the PID file.
PidFileNeverRemoved(p, pf) == pf

PidFileAfterCheck(p, pf) ==
    IF ~IsAlreadyRunning(p, pf) /\ pf # NoPid THEN NoPid ELSE pf

PidFileAfterCleanup(p, pf) ==
    IF pf # NoPid /\ ~ProcessExists(p, pf) THEN NoPid ELSE pf

\* SIGTERM: a child that has not installed its handlers yet dies; a daemon
\* runs gracefulShutdown, i.e. stop().
Sigterm(p, targets) ==
    [d \in Pids |->
        IF d \notin targets THEN p[d]
        ELSE IF p[d].state = "spawned" THEN DeadProc
        ELSE IF p[d].state \in {"running", "persisting"}
             THEN [p[d] EXCEPT !.state = "terminating"]
        ELSE p[d]]

\* A SIGKILL that ends no process.
SigkillIgnored(p, targets) == p

Sigkill(p, targets) ==
    [d \in Pids |-> IF d \in targets /\ p[d].state \in LiveStates THEN DeadProc ELSE p[d]]

MinPid(S) == CHOOSE d \in S : \A e \in S : d <= e

\* cleanupStaleDaemons: with several daemons in the process table, all but
\* the first listed are signalled.
CleanupStaleDaemons(p) ==
    IF Cardinality(PsDaemons(p)) > 1
    THEN Sigterm(p, PsDaemons(p) \ {MinPid(PsDaemons(p))})
    ELSE p

\* A plausible bug: the lock file is written without the exclusive flag.
LockAlwaysFree(lock) == TRUE

\* fs.writeFile(lockFile, pid, {flag: 'wx'}) succeeds
LockFree(lock) == ~lock

(***************************************************************************)
(* The session monitor's probes.  Confidences and scores are counted in    *)
(* tenths.                                                                 *)
(***************************************************************************)
\* How an exec'd probe command ends: with output, with none (the command
\* found nothing), or in failure (the command is missing or was killed).
\* Without output the callback gets an error or an empty stdout.
ProbeOutcomes == {"output", "nothing", "failed"}

\* checkMacOSSession: who | grep console
CheckMacOSSession(probe) == IF probe = "output" THEN "true" ELSE "false"

\* checkLinuxLockState: loginctl show-session says Active=yes, then the
\* listing of the screen lockers; "assume locked if session check fails".
CheckLinuxLockState(session, locker) ==
    IF session = "output"
    THEN IF locker = "output" THEN "true" ELSE "false"
    ELSE "true"

Vote(locked, confidence) == [locked |-> locked, confidence |-> confidence]

\* checkMacOSLockState, method 1: pgrep -x ScreenSaverEngine
ScreensaverVote(probe) ==
    IF probe = "output" THEN Vote(TRUE, 9) ELSE Vote(FALSE, 1)

\* checkMacOSLockState, method 2: brightness -l and, when it fails,
\* system_profiler SPDisplaysDataType | grep Resolution
BrightnessVote(probe, display) ==
    IF probe = "failed" THEN Vote(display # "output", 3)
    ELSE IF probe = "output" THEN Vote(FALSE, 7)
    ELSE Vote(TRUE, 5)

\* checkMacOSLockState, method 3: osascript counting the desktop items
UiAccessVote(probe) ==
    IF probe = "output" THEN Vote(FALSE, 8) ELSE Vote(TRUE, 6)

\* The three results Promise.allSettled collects.
LockCheckResults(screensaver, brightness, display, ui) ==
    <<ScreensaverVote(screensaver), BrightnessVote(brightness, display),
      UiAccessVote(ui)>>

One == 10
HalfScore == 5
HighConfidence == 7

\* evaluateLockState: lockedScore, the sum of the weights
\* result.locked ? result.confidence : (1 - result.confidence)
RECURSIVE LockedScore(_)
LockedScore(results) ==
    IF results = <<>> THEN 0
    ELSE (IF Head(results).locked THEN Head(results).confidence
          ELSE One - Head(results).confidence) + LockedScore(Tail(results))

\* evaluateLockState(results): the sample handed to handleLockStateChange.
\* averageScore > 0.5 reads lockedScore > 0.5 * results.length.
EvaluateLockState(results) ==
    IF Len(results) = 0 THEN "false"
    ELSE IF \E i \in 1..Len(results) :
                results[i].confidence > HighConfidence /\ results[i].locked
    THEN "true"
    ELSE IF LockedScore(results) > HalfScore * Len(results) THEN "true"
    ELSE "false"

\* checkMacOSLockState: the samples one polling cycle hands to
\* handleLockStateChange.  When the 5-second timer fires first, it
\* evaluates the empty list; Promise.allSettled(...).then evaluates the
\* results once the probes have settled, whether the timer fired or not.
CheckMacOSLockState(results, timedOut) ==
    IF timedOut THEN <<EvaluateLockState(<<>>), EvaluateLockState(results)>>
    ELSE <<EvaluateLockState(results)>>

(***************************************************************************)
(* The session monitor's transition rule                                   *)
(***************************************************************************)
\* A plausible bug: a sample that differs is reported but not stored.
HandleSessionStateChangeNotStored(last, isActive) ==
    IF last = Null
    THEN [last |-> isActive, events |-> <<>>, handlers |-> <<>>]
    ELSE IF last = isActive
    THEN [last |-> last, events |-> <<>>, handlers |-> <<>>]
    ELSE IF isActive = "true"
    THEN [last |-> last, events |-> <<"login">>, handlers |-> <<"handleLogin">>]
    ELSE [last |-> last, events |-> <<"logout">>, handlers |-> <<"handleLogout">>]

\* A plausible bug: no special case for the first sample.
HandleLockStateChangeNoInitial(last, isLocked) ==
    IF last = isLocked
    THEN [last |-> last, events |-> <<>>, handlers |-> <<>>]
    ELSE IF isLocked = "false" /\ last = "true"
    THEN [last |-> isLocked, events |-> <<"unlock">>, handlers |-> <<"handleUnlock">>]
    ELSE IF isLocked = "true"
    THEN [last |-> isLocked, events |-> <<"lock">>, handlers |-> <<"handleLock">>]
    ELSE [last |-> isLocked, events |-> <<>>, handlers |-> <<>>]

\* handleSessionStateChange(isActive): the new lastSessionState, the events
\* emitted and the handlers called.
HandleSessionStateChange(last, isActive) ==
    IF last = isActive
    THEN [last |-> last, events |-> <<>>, handlers |-> <<>>]
    ELSE IF last = Null
    THEN [last |-> isActive, events |-> <<>>, handlers |-> <<>>]
    ELSE IF isActive = "true" /\ last = "false"
    THEN [last |-> isActive, events |-> <<"login">>, handlers |-> <<"handleLogin">>]
    ELSE IF isActive = "false" /\ last = "true"
    THEN [last |-> isActive, events |-> <<"logout">>, handlers |-> <<"handleLogout">>]
    ELSE [last |-> isActive, events |-> <<>>, handlers |-> <<>>]

\* handleLockStateChange(isLocked)
HandleLockStateChange(last, isLocked) ==
    IF last = isLocked
    THEN [last |-> last, events |-> <<>>, handlers |-> <<>>]
    ELSE IF last = Null
    THEN [last |-> isLocked, events |-> <<>>, handlers |-> <<>>]
    ELSE IF isLocked = "false" /\ last = "true"
    THEN [last |-> isLocked, events |-> <<"unlock">>, handlers |-> <<"handleUnlock">>]
    ELSE IF isLocked = "true" /\ last = "false"
    THEN [last |-> isLocked, events |-> <<"lock">>, handlers |-> <<"handleLock">>]
    ELSE [last |-> isLocked, events |-> <<>>, handlers |-> <<>>]

(***************************************************************************)
(* State                                                                   *)
(***************************************************************************)
VARIABLES
    activities,      \* DataManager.activities of the process under study
    activitiesFile,  \* contents of activities.json
    nextId,          \* the next fresh uuid
    lastOp,          \* the last ledger operation: its kind and 1-based position
    explicit,        \* some operation so far was given an explicit duration
    override,        \* the last durationMinutes given to updateActivity, and
                     \* what has run since
    config,          \* the session flags of config.json
    now,             \* the wall clock
    procs,           \* the daemon children, by pid
    pidFile,         \* tracker.pid: the pid it holds, or NoPid
    lockFile,        \* daemon.lock exists
    statusFile,      \* daemon_status.json exists
    emergencyFile,   \* emergency_pre_shutdown.json
    pc,              \* where each CLI-side process stands in start()/stop()
    outcome,         \* how each CLI-side process's last start()/stop() ended
    lastSample,      \* the sample processed by the last step, with its effects
    atShutdown,      \* the ledger saved by the last stop sequence, and the
                     \* ledger the next daemon startup loaded
    store,           \* the state of the activities file and its backups, as
                     \* the persistence specification follows them
    lastStore,       \* the DataManager call of the last step and how it ended
    configStore,     \* config.json and its backups, as the configuration
                     \* specification follows them
    lastConfig,      \* the setConfig call of the last step and what it returned
    deferred         \* the save loadActivitiesWithIntegrityCheck scheduled
                     \* with setTimeout, and the array it captured

ledgerVars == <<activities, activitiesFile, nextId, lastOp, explicit, override>>

storeVars == <<store, lastStore, configStore, lastConfig, deferred>>

sysVars == <<config, now, procs, pidFile, lockFile, statusFile, emergencyFile, pc,
             outcome, lastSample, atShutdown, store, lastStore, configStore, lastConfig,
          deferred>>

vars == <<activities, activitiesFile, nextId, lastOp, explicit, override,
          config, now, procs, pidFile, lockFile, statusFile, emergencyFile, pc,
          outcome, lastSample, atShutdown, store, lastStore, configStore, lastConfig,
          deferred>>

NoOp == [kind |-> "none", idx |-> 0]

NoSample ==
    [kind |-> "none", pid |-> NoPid, previous |-> Null, sample |-> Null,
     events |-> <<>>, handlers |-> <<>>]

NoOverride == [id |-> NoValue, minutes |-> NoValue, phase |-> "none", kept |-> FALSE]
OverrideOff == [NoOverride EXCEPT !.phase = "off"]

NoShutdown == [phase |-> "none", activities |-> <<>>, loaded |-> <<>>]

NoStoreOp ==
    [kind |-> "none", fault |-> "none", result |-> "none", save |-> "none",
     seen |-> "none"]

\* No save is scheduled.  aliased: this.activities is still the array the
\* callback captured, so that splices on the ledger show in it; captured is
\* the array's contents from the moment the ledger is another array.
NoDeferred == [pending |-> FALSE, aliased |-> FALSE, captured |-> <<>>]

NoConfigOp ==
    [kind |-> "none", key |-> "", value |-> FALSE, returned |-> FALSE,
     save |-> "none"]

Configs == [autoStop : BOOLEAN, autoStartOnUnlock : BOOLEAN, autoStopOnLock : BOOLEAN]

ClockTimes == {T0930, TNextDay}

InitData ==
    /\ activities = <<>>
    /\ activitiesFile = <<>>
    /\ nextId = 1
    /\ lastOp = NoOp
    /\ explicit = FALSE
    /\ override = OverrideOff

\* No daemon, no PID, lock or emergency file, every CLI-side process idle.
InitProcesses ==
    /\ now = T0930
    /\ procs = [d \in Pids |-> NoProc]
    /\ pidFile = NoPid
    /\ lockFile = FALSE
    /\ statusFile = FALSE
    /\ emergencyFile = NoEmergency
    /\ pc = [c \in Callers |-> "idle"]
    /\ outcome = [c \in Callers |-> "none"]
    /\ lastSample = NoSample
    /\ atShutdown = NoShutdown
    /\ store = NoStore
    /\ lastStore = NoStoreOp
    /\ configStore = NoConfigStore
    /\ lastConfig = NoConfigOp
    /\ deferred = NoDeferred

InitLedger == InitData /\ InitProcesses /\ config = DefaultConfig

InitSystem == InitData /\ InitProcesses /\ config \in Configs

\* autoStopOnLogout and autoStopOnLock set; autoStartOnUnlock either way.
SessionConfigs == {cfg \in Configs : cfg.autoStop /\ cfg.autoStopOnLock}

InitSession == InitData /\ InitProcesses /\ config \in SessionConfigs

Init == InitSystem

IdsOf(acts) == {acts[i].id : i \in 1..Len(acts)}

\* What became of the last duration override: the entry and the minutes
\* stored for it, whether the last step ran the recompute ("recomputed") or
\* none has run since ("honored"), and whether another mutation ran while
\* it was honored.  The step after a recompute ends the observation; in
\* the specifications that start with OverrideOff nothing is observed.
AfterMutation ==
    IF override.phase = "honored" THEN [override EXCEPT !.kept = TRUE]
    ELSE IF override = OverrideOff THEN OverrideOff
    ELSE NoOverride

AfterRecompute ==
    IF override.phase = "honored" THEN [override EXCEPT !.phase = "recomputed"]
    ELSE IF override = OverrideOff THEN OverrideOff
    ELSE NoOverride

AfterUpdate(id, updates) ==
    IF override = OverrideOff THEN OverrideOff
    ELSE IF updates.durationMinutes # NoValue
    THEN [id |-> id, minutes |-> Max(0, updates.durationMinutes),
          phase |-> IF updates.timestampEnd # NoValue
                    THEN "recomputed" ELSE "honored",
          kept |-> FALSE]
    ELSE IF updates.timestampEnd # NoValue THEN AfterRecompute
    ELSE AfterMutation

AfterDelete(id) ==
    IF override.phase \in {"honored", "recomputed"} /\ override.id = id
    THEN NoOverride
    ELSE AfterRecompute

\* pulse log [-t time] [--duration d]: addActivity, then saveActivities.
CmdLog(activity, timestampEnd, durationMinutes) ==
    /\ nextId <= MaxIds
    /\ activities' = AddActivity(activities, nextId, activity, timestampEnd, durationMinutes)
    /\ activitiesFile' = SerializeActivities(activities')
    /\ nextId' = nextId + 1
    /\ lastOp' = [kind |-> "append", idx |-> 0]
    /\ explicit' = (explicit \/ durationMinutes # NoValue)
    /\ override' = AfterMutation
    /\ UNCHANGED sysVars

\* pulse edit: updateActivity, then saveActivities.
CmdEdit(id, updates) ==
    /\ id \in IdsOf(activities)
    /\ updates # Patch(NoText, NoValue, NoValue)
    /\ activities' = UpdateActivity(activities, id, updates)
    /\ activitiesFile' = SerializeActivities(activities')
    /\ lastOp' = [kind |-> IF updates.timestampEnd # NoValue
                           THEN "update_time" ELSE "update",
                  idx |-> 0]
    /\ explicit' = (explicit \/ updates.durationMinutes # NoValue)
    /\ override' = AfterUpdate(id, updates)
    /\ UNCHANGED nextId
    /\ UNCHANGED sysVars

\* pulse edit (delete): deleteActivity, then saveActivities.
CmdDelete(id) ==
    /\ id \in IdsOf(activities)
    /\ lastOp' = [kind |-> "delete", idx |-> FindIndexById(activities, id) + 1]
    /\ activities' = DeleteActivity(activities, id)
    /\ activitiesFile' = SerializeActivities(activities')
    /\ UNCHANGED <<nextId, explicit>>
    /\ override' = AfterDelete(id)
    /\ UNCHANGED sysVars

\* The patches the edit command builds from its choices: description, time,
\* duration, or all (where the time may be kept), and each alone for the
\* DataManager API.
EditPatches ==
    {Patch(a, t, d) : a \in EditDescriptions \cup {NoText}, t \in EditTimes \cup {NoValue},
                      d \in OverrideMinutes \cup {NoValue}}
        \ {Patch(NoText, NoValue, NoValue)}

NextLedger ==
    \/ \E timestampEnd \in EditTimes, durationMinutes \in OverrideMinutes \cup {NoValue} :
            \E activity \in EditDescriptions :
                CmdLog(activity, timestampEnd, durationMinutes)
    \/ \E id \in 1..MaxIds, updates \in EditPatches : CmdEdit(id, updates)
    \/ \E id \in 1..MaxIds : CmdDelete(id)

\* The edit sessions on a ledger of up to MaxOverrideIds entries, with the
\* duration overrides observed.
MaxOverrideIds == 2

InitOverride ==
    /\ activities = <<>>
    /\ activitiesFile = <<>>
    /\ nextId = 1
    /\ lastOp = NoOp
    /\ explicit = FALSE
    /\ override = NoOverride
    /\ InitProcesses
    /\ config = DefaultConfig

NextOverride ==
    \/ \E timestampEnd \in EditTimes, durationMinutes \in OverrideMinutes \cup {NoValue} :
            \E activity \in EditDescriptions :
                nextId <= MaxOverrideIds /\ CmdLog(activity, timestampEnd, durationMinutes)
    \/ \E id \in 1..MaxOverrideIds, updates \in EditPatches : CmdEdit(id, updates)
    \/ \E id \in 1..MaxOverrideIds : CmdDelete(id)

\* Appends only, from the empty ledger.
NextLog ==
    \E activity \in Descriptions, timestampEnd \in Times,
       durationMinutes \in OverrideMinutes \cup {NoValue} :
         CmdLog(activity, timestampEnd, durationMinutes)

(***************************************************************************)
(* CLI-side processes: pulse log, start() and stop()                       *)
(***************************************************************************)
\* What every step other than a sample or a daemon startup does to the
\* observation variables: the observation of the previous step is dropped.
Unobserved ==
    /\ lastSample' = NoSample
    /\ atShutdown' = IF atShutdown.phase = "restarted" THEN NoShutdown ELSE atShutdown
    /\ UNCHANGED storeVars

\* The result of a start() or stop() call, kept for observation when keep
\* holds.
Returns(c, result, keep) ==
    outcome' = [outcome EXCEPT ![c] = IF keep THEN result ELSE "none"]

\* pulse log in a fresh CLI process: new DataManager(), addActivity (which
\* saves), exit.
CliLog(timestampEnd) ==
    /\ nextId <= MaxIds
    /\ LET dm == NewDataManager(config, activitiesFile, emergencyFile,
                                IsDaemonRunning(procs, pidFile))
           acts == AddActivity(dm.activities, nextId, "A", timestampEnd, NoValue)
       IN  /\ activitiesFile' = SerializeActivities(acts)
           /\ emergencyFile' = AfterActivitiesWrite(dm.emergency)
           /\ config' = dm.config
    /\ nextId' = nextId + 1
    /\ Unobserved
    /\ UNCHANGED <<activities, lastOp, explicit, override, now, procs, pidFile,
                   lockFile, pc, outcome>>
    /\ UNCHANGED statusFile

\* start(), first part: cleanupStaleDaemons, then isAlreadyRunning.  Both
\* pulse start and the login/unlock handlers of a process that is not the
\* daemon come here after their own isAlreadyRunning check.
CmdStart(c, keep) ==
    /\ pc[c] \in {"idle", "called"}
    /\ LET cleaned == CleanupStaleDaemons(procs)
           pf == PidFileAfterCleanup(cleaned, pidFile)
       IN  /\ procs' = cleaned
           /\ pidFile' = PidFileAfterCheck(cleaned, pf)
           /\ IF IsAlreadyRunning(cleaned, pf)
              THEN /\ Returns(c, "already_running", keep)
                   /\ pc' = [pc EXCEPT ![c] = "idle"]
              ELSE /\ Returns(c, "none", keep)
                   /\ pc' = [pc EXCEPT ![c] = "lock"]
    /\ Unobserved
    /\ UNCHANGED <<ledgerVars, config, now, lockFile, emergencyFile>>
    /\ UNCHANGED statusFile

\* start(): the exclusive creation of the lock file.
StartLock(c, keep) ==
    /\ pc[c] = "lock"
    /\ IF LockFree(lockFile)
       THEN /\ lockFile' = TRUE
            /\ pc' = [pc EXCEPT ![c] = "locked"]
            /\ UNCHANGED outcome
       ELSE /\ Returns(c, "lock_race", keep)
            /\ pc' = [pc EXCEPT ![c] = "idle"]
            /\ UNCHANGED lockFile
    /\ Unobserved
    /\ UNCHANGED <<ledgerVars, config, now, procs, pidFile, emergencyFile>>
    /\ UNCHANGED statusFile

\* start(): the double check under the lock.
StartDoubleCheck(c, keep) ==
    /\ pc[c] = "locked"
    /\ pidFile' = PidFileAfterCheck(procs, pidFile)
    /\ IF IsAlreadyRunning(procs, pidFile)
       THEN /\ Returns(c, "already_running", keep)
            /\ pc' = [pc EXCEPT ![c] = "failed"]
       ELSE /\ pc' = [pc EXCEPT ![c] = "spawn"]
            /\ UNCHANGED outcome
    /\ Unobserved
    /\ UNCHANGED <<ledgerVars, config, now, procs, lockFile, emergencyFile>>
    /\ UNCHANGED statusFile

\* start(): spawn('node', [pulse, 'start', '--daemon'], {detached: true}).
StartSpawn(c) ==
    /\ pc[c] = "spawn"
    /\ \E d \in Pids :
          /\ procs[d].state = "none"
          /\ \A e \in Pids : procs[e].state = "none" => d <= e
          /\ procs' = [procs EXCEPT ![d] = SpawnedProc]
    /\ pc' = [pc EXCEPT ![c] = "wait"]
    /\ Unobserved
    /\ UNCHANGED <<ledgerVars, config, now, pidFile, lockFile, emergencyFile, outcome>>
    /\ UNCHANGED statusFile

\* start(): a poll finds the PID file; the lock file is removed (finally).
StartWaitDone(c, keep) ==
    /\ pc[c] = "wait"
    /\ pidFile # NoPid
    /\ lockFile' = FALSE
    /\ Returns(c, "started", keep)
    /\ pc' = [pc EXCEPT ![c] = "idle"]
    /\ Unobserved
    /\ UNCHANGED <<ledgerVars, config, now, procs, pidFile, emergencyFile>>
    /\ UNCHANGED statusFile

\* start(): the 5-second timeout fires before any poll found the PID file.
StartTimeout(c, keep) ==
    /\ pc[c] = "wait"
    /\ pidFile = NoPid
    /\ Returns(c, "timeout", keep)
    /\ pc' = [pc EXCEPT ![c] = "failed"]
    /\ Unobserved
    /\ UNCHANGED <<ledgerVars, config, now, procs, pidFile, lockFile, emergencyFile>>
    /\ UNCHANGED statusFile

\* A failing start() without its finally block.
StartFailKeepsLock(c) ==
    /\ pc[c] = "failed"
    /\ pidFile' = NoPid
    /\ pc' = [pc EXCEPT ![c] = "idle"]
    /\ Unobserved
    /\ UNCHANGED <<ledgerVars, config, now, procs, lockFile, emergencyFile, outcome>>
    /\ UNCHANGED statusFile

\* start(): catch (remove the PID file) and finally (remove the lock file).
StartFail(c) ==
    /\ pc[c] = "failed"
    /\ pidFile' = NoPid
    /\ lockFile' = FALSE
    /\ pc' = [pc EXCEPT ![c] = "idle"]
    /\ Unobserved
    /\ UNCHANGED <<ledgerVars, config, now, procs, emergencyFile, outcome>>
    /\ UNCHANGED statusFile

\* handleUnlock in a process that is not the daemon and runs the session
\* monitor (pulse session --start): with autoStartOnUnlock, isAlreadyRunning
\* and, when no daemon is found, the call of start().
CliHandleUnlock(c) ==
    /\ pc[c] = "idle"
    /\ IF ~config.autoStartOnUnlock
       THEN UNCHANGED <<pidFile, pc>>
       ELSE /\ pidFile' = PidFileAfterCheck(procs, pidFile)
            /\ pc' = [pc EXCEPT ![c] = IF IsAlreadyRunning(procs, pidFile)
                                       THEN "idle" ELSE "called"]
    /\ lastSample' = [kind |-> "lock", pid |-> NoPid, previous |-> "true",
                      sample |-> "false", events |-> <<"unlock">>,
                      handlers |-> <<"handleUnlock">>]
    /\ atShutdown' = IF atShutdown.phase = "restarted" THEN NoShutdown ELSE atShutdown
    /\ UNCHANGED <<ledgerVars, config, now, procs, lockFile, emergencyFile, outcome>>
    /\ UNCHANGED storeVars
    /\ UNCHANGED statusFile

\* pulse stop: isAlreadyRunning, then stop() up to its first listing of the
\* process table.
CmdStop(c, keep) ==
    /\ pc[c] = "idle"
    /\ pidFile' = PidFileAfterCheck(procs, pidFile)
    /\ IF IsAlreadyRunning(procs, pidFile)
       THEN /\ pc' = [pc EXCEPT ![c] = "stop_term"]
            /\ Returns(c, "none", keep)
       ELSE /\ Returns(c, "not_running", keep)
            /\ UNCHANGED pc
    /\ Unobserved
    /\ UNCHANGED <<ledgerVars, config, now, procs, lockFile, emergencyFile>>
    /\ UNCHANGED statusFile

\* stop(): SIGTERM to every daemon in the process table, then the grace
\* period.  With no daemon listed there is no grace period and no second
\* listing: SIGTERM to the process of the PID file, removal of the PID file
\* and of the status file, and stop() returns.
StopTerm(c) ==
    /\ pc[c] = "stop_term"
    /\ IF PsDaemons(procs) = {}
       THEN /\ procs' = Sigterm(procs, {pidFile} \cap Pids)
            /\ pidFile' = NoPid
            /\ statusFile' = FALSE
            /\ pc' = [pc EXCEPT ![c] = "idle"]
       ELSE /\ procs' = Sigterm(procs, PsDaemons(procs))
            /\ pc' = [pc EXCEPT ![c] = "stop_kill"]
            /\ UNCHANGED <<pidFile, statusFile>>
    /\ Unobserved
    /\ UNCHANGED <<ledgerVars, config, now, lockFile, emergencyFile, outcome>>

\* stop(), after the grace period: SIGKILL to every daemon still listed,
\* SIGTERM to the process of the PID file, removal of the PID file and of
\* the status file.
StopKill(c, keep) ==
    /\ pc[c] = "stop_kill"
    /\ procs' = Sigkill(procs, PsDaemons(procs))
    /\ pidFile' = NoPid
    /\ statusFile' = FALSE
    /\ Returns(c, "stopped", keep)
    /\ pc' = [pc EXCEPT ![c] = "idle"]
    /\ Unobserved
    /\ UNCHANGED <<ledgerVars, config, now, lockFile, emergencyFile>>

(***************************************************************************)
(* The daemon child                                                        *)
(***************************************************************************)
\* node pulse start --daemon: new DataManager(), then startDaemon(): the
\* resume marker after a recent lock pause, the PID file, the timers.
DaemonStart(d) ==
    /\ procs[d].state = "spawned"
    /\ LET dm == NewDataManager(config, activitiesFile, emergencyFile,
                                IsDaemonRunning(procs, pidFile))
           addResume == NeedsResumeAtStartup(dm.activities, now)
           acts == IF addResume
                   THEN AddActivity(dm.activities, nextId, Resumed, now, NoValue)
                   ELSE dm.activities
       IN  /\ addResume => nextId <= MaxIds
           /\ nextId' = IF addResume THEN nextId + 1 ELSE nextId
           /\ activitiesFile' = IF addResume THEN SerializeActivities(acts) ELSE dm.file
           /\ emergencyFile' = IF addResume THEN AfterActivitiesWrite(dm.emergency)
                               ELSE dm.emergency
           /\ config' = dm.config
           /\ procs' = [procs EXCEPT ![d] =
                          [state |-> "running", activities |-> acts,
                           lastSessionState |-> Null, lastLockState |-> Null,
                           job |-> TRUE, statusInterval |-> TRUE,
                           lockCheck |-> "idle"]]
           /\ atShutdown' = IF atShutdown.phase = "stopped"
                            THEN [atShutdown EXCEPT !.phase = "restarted",
                                                    !.loaded = dm.activities]
                            ELSE IF atShutdown.phase = "restarted" THEN NoShutdown
                            ELSE atShutdown
    /\ pidFile' = d
    /\ statusFile' = TRUE
    /\ lastSample' = NoSample
    /\ UNCHANGED <<activities, lastOp, explicit, override, now, lockFile, pc, outcome>>
    /\ UNCHANGED storeVars

\* The session monitor runs in the daemon when a lock flag is set.
Monitoring(d) ==
    /\ procs[d].state = "running"
    /\ (config.autoStartOnUnlock \/ config.autoStopOnLock)

\* A plausible bug: the emergency backup is taken before the marker is
\* appended.
BeginStopSequenceBackupFirst(p, d, marker) ==
    LET mem == p[d].activities
        addPause == ~LastIsPause(mem, now)
        acts == IF addPause THEN AddActivity(mem, nextId, marker, now, NoValue) ELSE mem
    IN  /\ addPause => nextId <= MaxIds
        /\ nextId' = IF addPause THEN nextId + 1 ELSE nextId
        /\ activitiesFile' = IF addPause THEN SerializeActivities(acts) ELSE activitiesFile
        /\ emergencyFile' = EmergencyBackup(mem, config, TRUE)
        /\ procs' = [p EXCEPT ![d].activities = acts, ![d].state = "persisting"]

\* ensureDataPersistence(reason), up to the write of the emergency backup:
\* the pause marker unless the last recent entry is one, then the backup of
\* the whole ledger.  The daemon goes on to save and to stop().
BeginStopSequence(p, d, marker) ==
    LET mem == p[d].activities
        addPause == ~LastIsPause(mem, now)
        acts == IF addPause THEN AddActivity(mem, nextId, marker, now, NoValue) ELSE mem
    IN  /\ addPause => nextId <= MaxIds
        /\ nextId' = IF addPause THEN nextId + 1 ELSE nextId
        /\ activitiesFile' = IF addPause THEN SerializeActivities(acts) ELSE activitiesFile
        /\ \E newer \in (IF addPause THEN BOOLEAN ELSE {TRUE}) :
              emergencyFile' = EmergencyBackup(acts, config, newer)
        /\ procs' = [p EXCEPT ![d].activities = acts, ![d].state = "persisting"]

\* A handler appends a marker to the daemon's ledger (addActivity saves)
\* unless skip holds.
AppendMarker(p, d, marker, skip) ==
    LET acts == AddActivity(p[d].activities, nextId, marker, now, NoValue)
    IN  IF skip
        THEN /\ procs' = p
             /\ UNCHANGED <<nextId, activitiesFile, emergencyFile>>
        ELSE /\ nextId <= MaxIds
             /\ nextId' = nextId + 1
             /\ activitiesFile' = SerializeActivities(acts)
             /\ emergencyFile' = AfterActivitiesWrite(emergencyFile)
             /\ procs' = [p EXCEPT ![d].activities = acts]

NoHandler(p) ==
    /\ procs' = p
    /\ UNCHANGED <<nextId, activitiesFile, emergencyFile>>

\* handleLogin in the daemon: the daemon finds itself in the process table,
\* so isAlreadyRunning holds and start() is not called.
HandleLogin(p, d) == NoHandler(p)

\* handleLogout in the daemon: isAlreadyRunning holds.
HandleLogout(p, d) ==
    IF ~config.autoStop THEN NoHandler(p)
    ELSE BeginStopSequence(p, d, PauseLoggedOut)

\* A plausible bug: the unlock handler of the daemon spawns a child.
HandleUnlockSpawns(p, d) ==
    LET free == {e \in Pids : p[e].state = "none"}
    IN  IF ~config.autoStartOnUnlock THEN NoHandler(p)
        ELSE /\ procs' = IF free = {} THEN p
                         ELSE [p EXCEPT ![MinPid(free)] = SpawnedProc]
             /\ UNCHANGED <<nextId, activitiesFile, emergencyFile>>

\* handleUnlock in the daemon (isDaemonProcess): the resume marker only.
HandleUnlock(p, d) ==
    IF ~config.autoStartOnUnlock THEN NoHandler(p)
    ELSE AppendMarker(p, d, Resumed, LastIsResume(p[d].activities, 3, now))

\* A plausible bug: the lock handler stops the daemon whatever
\* autoStartOnUnlock says.
HandleLockAlwaysStops(p, d) ==
    IF ~config.autoStopOnLock THEN NoHandler(p)
    ELSE BeginStopSequence(p, d, PauseLocked)

\* A plausible bug: the lock handler never runs the stop sequence.
HandleLockNeverStops(p, d) ==
    IF ~config.autoStopOnLock THEN NoHandler(p)
    ELSE AppendMarker(p, d, PauseLocked, LastIsPause(p[d].activities, now))

\* handleLock in the daemon.
HandleLock(p, d) ==
    IF ~config.autoStopOnLock THEN NoHandler(p)
    ELSE IF config.autoStartOnUnlock
    THEN AppendMarker(p, d, PauseLocked, LastIsPause(p[d].activities, now))
    ELSE BeginStopSequence(p, d, PauseLocked)

\* A login/logout probe result reaches handleSessionStateChange.
DaemonSessionSample(d, isActive) ==
    /\ Monitoring(d)
    /\ LET t == HandleSessionStateChange(procs[d].lastSessionState, isActive)
           p == [procs EXCEPT ![d].lastSessionState = t.last]
       IN  /\ lastSample' = [kind |-> "session", pid |-> d,
                             previous |-> procs[d].lastSessionState,
                             sample |-> isActive,
                             events |-> t.events, handlers |-> t.handlers]
           /\ IF t.handlers = <<"handleLogin">> THEN HandleLogin(p, d)
              ELSE IF t.handlers = <<"handleLogout">> THEN HandleLogout(p, d)
              ELSE NoHandler(p)
    /\ atShutdown' = IF atShutdown.phase = "restarted" THEN NoShutdown ELSE atShutdown
    /\ UNCHANGED <<activities, lastOp, explicit, override, config, now, pidFile, lockFile,
                   pc, outcome>>
    /\ UNCHANGED storeVars
    /\ UNCHANGED statusFile

\* handleLockStateChange(isLocked) in daemon d, called by a polling cycle
\* that is then at `check`.
LockSampleArrives(d, isLocked, check) ==
    /\ LET t == HandleLockStateChange(procs[d].lastLockState, isLocked)
           p == [procs EXCEPT ![d].lastLockState = t.last, ![d].lockCheck = check]
       IN  /\ lastSample' = [kind |-> "lock", pid |-> d,
                             previous |-> procs[d].lastLockState,
                             sample |-> isLocked,
                             events |-> t.events, handlers |-> t.handlers]
           /\ IF t.handlers = <<"handleLock">> THEN HandleLock(p, d)
              ELSE IF t.handlers = <<"handleUnlock">> THEN HandleUnlock(p, d)
              ELSE NoHandler(p)
    /\ atShutdown' = IF atShutdown.phase = "restarted" THEN NoShutdown ELSE atShutdown
    /\ UNCHANGED <<activities, lastOp, explicit, override, config, now, pidFile, lockFile,
                   pc, outcome>>
    /\ UNCHANGED storeVars
    /\ UNCHANGED statusFile

\* A lock probe result reaches handleLockStateChange: a polling cycle
\* taken as one step.
DaemonLockSample(d, isLocked) ==
    /\ Monitoring(d)
    /\ LockSampleArrives(d, isLocked, procs[d].lockCheck)

\* The daemon is alive with its handlers attached: nothing in stop() or in
\* the stop sequence clears the polling intervals or detaches a callback.
Listening(d) ==
    /\ procs[d].state \in {"running", "persisting", "terminating"}
    /\ (config.autoStartOnUnlock \/ config.autoStopOnLock)

\* The lock polling interval fires: the probe commands are exec'd.
DaemonLockCycleStart(d) ==
    /\ Monitoring(d)
    /\ procs[d].lockCheck = "idle"
    /\ procs' = [procs EXCEPT ![d].lockCheck = "probing"]
    /\ Unobserved
    /\ UNCHANGED <<ledgerVars, config, now, pidFile, lockFile, emergencyFile,
                   pc, outcome>>
    /\ UNCHANGED statusFile

\* checkLinuxLockState: the callbacks of the two commands.
DaemonLinuxLockSettled(d, session, locker) ==
    /\ Listening(d)
    /\ procs[d].lockCheck = "probing"
    /\ LockSampleArrives(d, CheckLinuxLockState(session, locker), "idle")

\* checkMacOSLockState: the probes settle before the 5-second timer.
DaemonMacLockSettled(d, results) ==
    /\ Listening(d)
    /\ procs[d].lockCheck = "probing"
    /\ LockSampleArrives(d, CheckMacOSLockState(results, FALSE)[1], "idle")

\* checkMacOSLockState: the 5-second timer fires before the probes settle.
DaemonMacLockTimeout(d) ==
    /\ Listening(d)
    /\ procs[d].lockCheck = "probing"
    /\ LockSampleArrives(d, CheckMacOSLockState(<<>>, TRUE)[1], "late")

\* checkMacOSLockState: the probes settle after the timer has fired.
DaemonMacLockLate(d, results) ==
    /\ Listening(d)
    /\ procs[d].lockCheck = "late"
    /\ LockSampleArrives(d, CheckMacOSLockState(results, TRUE)[2], "idle")

\* checkMacOSSession: one polling cycle of the session probe.
DaemonMacSessionCycle(d, probe) == DaemonSessionSample(d, CheckMacOSSession(probe))

\* ensureDataPersistence, second part: saveActivities; then stop() signals
\* every daemon in the process table, this one included.
DaemonPersistSave(d) ==
    /\ procs[d].state = "persisting"
    /\ activitiesFile' = SerializeActivities(procs[d].activities)
    /\ emergencyFile' = AfterActivitiesWrite(emergencyFile)
    /\ atShutdown' = [phase |-> "stopped", activities |-> procs[d].activities,
                      loaded |-> <<>>]
    /\ procs' = Sigterm(procs, PsDaemons(procs))
    /\ lastSample' = NoSample
    /\ UNCHANGED <<activities, nextId, lastOp, explicit, override, config, now, pidFile,
                   lockFile, pc, outcome>>
    /\ UNCHANGED storeVars
    /\ UNCHANGED statusFile

\* stop() inside a daemon handling SIGTERM: after the grace period it
\* SIGKILLs every daemon still listed, itself included, and so never
\* reaches the rest of stop().
DaemonStopKill(d) ==
    /\ procs[d].state = "terminating"
    /\ procs' = Sigkill(procs, PsDaemons(procs))
    /\ Unobserved
    /\ UNCHANGED <<ledgerVars, config, now, pidFile, lockFile, emergencyFile,
                   pc, outcome>>
    /\ UNCHANGED statusFile

\* Time passes.
Tick ==
    /\ \E t \in ClockTimes : t > now /\ now' = t
    /\ Unobserved
    /\ UNCHANGED <<ledgerVars, config, procs, pidFile, lockFile, emergencyFile,
                   pc, outcome>>
    /\ UNCHANGED statusFile

(***************************************************************************)
(* A DataManager, its files and what goes wrong with them                  *)
(***************************************************************************)
\* The daemon of the persistence specification, when there is one.
RunningProc == [NoProc EXCEPT !.state = "running", !.job = TRUE, !.statusInterval = TRUE]

\* An empty data directory; either no daemon, or daemon 1 with its PID file.
InitStore ==
    /\ InitData
    /\ config = DefaultConfig
    /\ now = T0930
    /\ pidFile \in {NoPid, 1}
    /\ procs = [d \in Pids |-> IF d = pidFile THEN RunningProc ELSE NoProc]
    /\ lockFile = FALSE
    /\ statusFile = FALSE
    /\ emergencyFile = NoEmergency
    /\ pc = [c \in Callers |-> "idle"]
    /\ outcome = [c \in Callers |-> "none"]
    /\ lastSample = NoSample
    /\ atShutdown = NoShutdown
    /\ store = NoStore
    /\ lastStore = NoStoreOp
    /\ configStore = NoConfigStore
    /\ lastConfig = NoConfigOp
    /\ deferred = NoDeferred

\* The instants and the patches of the persistence specification.
StoreTimes == {T0930}
StorePatches == {Patch("A", NoValue, NoValue)}

\* What the persistence actions leave alone.
StoreFrame ==
    UNCHANGED <<now, lockFile, statusFile, pc, outcome, lastSample, atShutdown,
                configStore, lastConfig>>

\* loadActivitiesWithIntegrityCheck(): the valid entries of loadActivities();
\* recoverActivities() when loadActivities() throws.
LoadWithIntegrityCheck(st, file) ==
    LET r == ReadActivities(st.file, file)
        b == RestoreFromBackup(<<>>, st, file)
    IN  IF r.threw
        THEN [activities |-> IF b.restored THEN b.activities ELSE <<>>,
              store |-> b.store, file |-> b.file]
        ELSE [activities |-> SelectSeq(r.activities, ValidActivity),
              store |-> st, file |-> file]

\* loadActivitiesWithIntegrityCheck(): entries were filtered out, and the
\* save of the cleaned array is scheduled with setTimeout(..., 100).
Filtered(st, file) ==
    LET r == ReadActivities(st.file, file)
    IN  ~r.threw /\ Len(SelectSeq(r.activities, ValidActivity)) # Len(r.activities)

\* The scheduled save once this.activities was assigned another array:
\* the callback keeps the array it captured, with the contents it had.
Reassigned(df, contents) ==
    IF df.pending /\ df.aliased
    THEN [df EXCEPT !.aliased = FALSE, !.captured = contents]
    ELSE df

\* The emergency backup as checkEmergencyRecovery sees it: a missing
\* activities file has the modification time new Date(0).
EmergencySeen(em, st) == [em EXCEPT !.newer = @ \/ st.file = "missing"]

\* new DataManager() in a fresh process: the ledger is loaded, then
\* checkEmergencyRecovery runs, which saves what it recovers.
StoreBoot ==
    LET l == LoadWithIntegrityCheck(store, activitiesFile)
        c == CheckEmergencyRecovery(l.activities, config, l.file,
                                    EmergencySeen(emergencyFile, l.store),
                                    IsDaemonRunning(procs, pidFile))
        sv == SaveActivities(c.activities, l.store, l.file, "none")
    IN  /\ c.saved => l.store.backupCount < MaxStoreBackups
        /\ activities' = c.activities
        /\ config' = c.config
        /\ activitiesFile' = IF c.saved THEN sv.file ELSE l.file
        /\ store' = IF c.saved THEN sv.store ELSE l.store
        /\ emergencyFile' = IF c.emergency.exists THEN emergencyFile ELSE NoEmergency
        /\ lastStore' = [kind |-> "boot", fault |-> "none", result |-> "returned",
                         save |-> IF c.saved THEN sv.outcome ELSE "none",
                         seen |-> store.file]
        /\ deferred' = IF ~Filtered(store, activitiesFile) THEN NoDeferred
                       ELSE IF c.saved
                       THEN Reassigned([NoDeferred EXCEPT !.pending = TRUE,
                                                          !.aliased = TRUE],
                                       l.activities)
                       ELSE [NoDeferred EXCEPT !.pending = TRUE, !.aliased = TRUE]
        /\ lastOp' = NoOp
        /\ UNCHANGED <<nextId, explicit, override, procs, pidFile>>
        /\ StoreFrame

\* A mutation of the ledger followed by saveActivities(), with what goes
\* wrong with the write.  The call returns whatever the save did.
StoreSave(kind, acts, fault, limit) ==
    LET sv == SaveActivities(acts, store, activitiesFile, fault)
    IN  /\ store.backupCount < limit
        /\ activities' = sv.activities
        /\ activitiesFile' = sv.file
        /\ store' = sv.store
        /\ emergencyFile' = AfterActivitiesWrite(emergencyFile)
        /\ lastStore' = [kind |-> kind, fault |-> fault, result |-> "returned",
                         save |-> sv.outcome, seen |-> "none"]
        /\ deferred' = IF sv.outcome = "restored" THEN Reassigned(deferred, acts)
                       ELSE deferred

\* updateActivity / deleteActivity with an unknown id: the throw.
StoreNotFound(kind) ==
    /\ lastStore' = [kind |-> kind, fault |-> "none", result |-> "threw",
                     save |-> "none", seen |-> "none"]
    /\ UNCHANGED <<activities, activitiesFile, store, emergencyFile, deferred>>

\* addActivity(activity, timestampEnd)
StoreLog(timestampEnd, fault, limit, ids) ==
    /\ nextId <= ids
    /\ StoreSave("log", AddActivity(activities, nextId, "A", timestampEnd, NoValue),
                 fault, limit)
    /\ nextId' = nextId + 1
    /\ lastOp' = [kind |-> "append", idx |-> 0]
    /\ UNCHANGED <<explicit, override, config, procs, pidFile>>
    /\ StoreFrame

\* updateActivity(id, updates)
StoreEdit(id, updates, fault, limit) ==
    /\ LET t == TryUpdate(activities, id, updates)
       IN  IF t.found THEN StoreSave("edit", t.activities, fault, limit)
           ELSE fault = "none" /\ StoreNotFound("edit")
    /\ lastOp' = [kind |-> "update", idx |-> 0]
    /\ UNCHANGED <<nextId, explicit, override, config, procs, pidFile>>
    /\ StoreFrame

\* deleteActivity(id)
StoreDelete(id, fault, limit) ==
    /\ LET t == TryDelete(activities, id)
       IN  IF t.found THEN StoreSave("delete", t.activities, fault, limit)
           ELSE fault = "none" /\ StoreNotFound("delete")
    /\ lastOp' = [kind |-> "delete", idx |-> 0]
    /\ UNCHANGED <<nextId, explicit, override, config, procs, pidFile>>
    /\ StoreFrame

\* pulse clear: dataManager.activities = [] and saveActivities().
StoreClear(fault, limit) ==
    LET sv == SaveActivities(<<>>, store, activitiesFile, fault)
    IN  /\ store.backupCount < limit
        /\ activities' = sv.activities
        /\ activitiesFile' = sv.file
        /\ store' = sv.store
        /\ emergencyFile' = AfterActivitiesWrite(emergencyFile)
        /\ lastStore' = [kind |-> "clear", fault |-> fault, result |-> "returned",
                         save |-> sv.outcome, seen |-> "none"]
        /\ deferred' = Reassigned(deferred, activities)
        /\ lastOp' = NoOp
        /\ UNCHANGED <<nextId, explicit, override, config, procs, pidFile>>
        /\ StoreFrame

\* The setTimeout callback of loadActivitiesWithIntegrityCheck:
\* this.activities = validActivities and saveActivities().
DeferredSave(fault, limit) ==
    LET acts == IF deferred.aliased THEN activities ELSE deferred.captured
        sv == SaveActivities(acts, store, activitiesFile, fault)
    IN  /\ deferred.pending
        /\ store.backupCount < limit
        /\ activities' = sv.activities
        /\ activitiesFile' = sv.file
        /\ store' = sv.store
        /\ emergencyFile' = AfterActivitiesWrite(emergencyFile)
        /\ lastStore' = [kind |-> "deferred", fault |-> fault, result |-> "returned",
                         save |-> sv.outcome, seen |-> "none"]
        /\ deferred' = NoDeferred
        /\ lastOp' = NoOp
        /\ UNCHANGED <<nextId, explicit, override, config, procs, pidFile>>
        /\ StoreFrame

\* setConfig('autoStopOnLock', value)
StoreSetConfig ==
    /\ config' = [config EXCEPT !.autoStopOnLock = ~@]
    /\ lastStore' = [kind |-> "config", fault |-> "none", result |-> "returned",
                     save |-> "saved", seen |-> "none"]
    /\ UNCHANGED <<ledgerVars, procs, pidFile, emergencyFile, store>>
    /\ StoreFrame
    /\ UNCHANGED deferred

\* The activities file stops being valid JSON: a torn or foreign write.
EnvCorrupt ==
    /\ store.file = "ok"
    /\ store' = [store EXCEPT !.file = "corrupt"]
    /\ activitiesFile' = NoData
    /\ emergencyFile' = AfterActivitiesWrite(emergencyFile)
    /\ lastStore' = NoStoreOp
    /\ UNCHANGED <<activities, nextId, lastOp, explicit, override, config, procs, pidFile>>
    /\ StoreFrame
    /\ UNCHANGED deferred

\* The daemon's ensureDataPersistence writes the emergency backup of its
\* ledger, here the ledger of the activities file.
EnvEmergencyBackup ==
    /\ \E d \in Pids : procs[d].state = "running"
    /\ store.file = "ok"
    /\ \E newer \in BOOLEAN :
          emergencyFile' = EmergencyBackup(LoadActivities(activitiesFile), config, newer)
    /\ lastStore' = NoStoreOp
    /\ UNCHANGED <<ledgerVars, config, procs, pidFile, store>>
    /\ StoreFrame
    /\ UNCHANGED deferred

\* The daemon is killed; its PID file stays behind.
EnvDaemonExit ==
    /\ \E d \in Pids : procs[d].state = "running"
    /\ procs' = Sigkill(procs, PsDaemons(procs))
    /\ lastStore' = NoStoreOp
    /\ UNCHANGED <<ledgerVars, config, pidFile, emergencyFile, store>>
    /\ StoreFrame
    /\ UNCHANGED deferred

\* At most this many records in the activities file a process finds.
MaxRecords == 2

\* The required fields of a stored record.
RequiredFields == {"id", "timestampStart", "timestampEnd", "activity"}

\* The i-th record of an activities file, as toJSON wrote it, without the
\* field `missing` (a file edited by hand or written by another version);
\* "none": the complete record.
StoredRecord(i, missing) ==
    LET end == T0900 + i * 30 * SecondsPerMinute
    IN  [id |-> IF missing = "id" THEN NoValue ELSE i,
         timestampStart |-> IF missing = "timestampStart" THEN NoIso
                            ELSE IsoString(end - 30 * SecondsPerMinute),
         timestampEnd |-> IF missing = "timestampEnd" THEN NoIso ELSE IsoString(end),
         activity |-> IF missing = "activity" THEN "" ELSE "A"]

StoredFiles ==
    UNION {{[i \in 1..n |-> StoredRecord(i, m[i])] :
                m \in [1..n -> RequiredFields \cup {"none"}]} : n \in 0..MaxRecords}

\* The emergency backups a process may find: none, or one of a ledger with
\* one entry, written after the activities file.
StoredEmergencies ==
    {NoEmergency,
     EmergencyBackup(<<NewActivity("B", T1015 + 3600, NoValue, MaxRecords + 1)>>,
                     DefaultConfig, TRUE)}

\* A process is about to be started on an activities file it did not write.
InitLoad ==
    /\ activities = <<>>
    /\ activitiesFile \in StoredFiles
    /\ nextId = MaxRecords + 2
    /\ lastOp = NoOp
    /\ explicit = FALSE
    /\ override = OverrideOff
    /\ config = DefaultConfig
    /\ now = T0930
    /\ procs = [d \in Pids |-> NoProc]
    /\ pidFile = NoPid
    /\ lockFile = FALSE
    /\ statusFile = FALSE
    /\ emergencyFile \in StoredEmergencies
    /\ pc = [c \in Callers |-> "idle"]
    /\ outcome = [c \in Callers |-> "none"]
    /\ lastSample = NoSample
    /\ atShutdown = NoShutdown
    /\ store = [NoStore EXCEPT !.file = "ok"]
    /\ lastStore = NoStoreOp
    /\ configStore = NoConfigStore
    /\ lastConfig = NoConfigOp
    /\ deferred = NoDeferred

\* new DataManager() has run in the process under study.
Booted == lastStore.kind # "none"

\* One process: new DataManager(), then pulse log or pulse clear, and the
\* scheduled save before or after them.
NextLoad ==
    \/ ~Booted /\ StoreBoot
    \/ Booted /\ StoreLog(TNextDay, "none", MaxStoreBackups, MaxRecords + 2)
    \/ Booted /\ StoreClear("none", MaxStoreBackups)
    \/ DeferredSave("none", MaxStoreBackups)

NextStore ==
    \/ StoreBoot
    \/ \E timestampEnd \in StoreTimes, fault \in Faults :
            StoreLog(timestampEnd, fault, MaxStoreBackups, MaxStoreIds)
    \/ \E id \in 1..MaxStoreIds, updates \in StorePatches, fault \in Faults :
            StoreEdit(id, updates, fault, MaxStoreBackups)
    \/ \E id \in 1..MaxStoreIds, fault \in Faults :
            StoreDelete(id, fault, MaxStoreBackups)
    \/ StoreSetConfig
    \/ EnvCorrupt
    \/ EnvEmergencyBackup
    \/ EnvDaemonExit

\* Writes that succeed, one after the other.
NextBackups ==
    \/ \E timestampEnd \in StoreTimes : StoreLog(timestampEnd, "none", MaxBackups, MaxIds)
    \/ \E id \in 1..MaxIds, updates \in StorePatches :
            StoreEdit(id, updates, "none", MaxBackups)
    \/ \E id \in 1..MaxIds : StoreDelete(id, "none", MaxBackups)

(***************************************************************************)
(* The configuration of one DataManager                                    *)
(***************************************************************************)
ConfigFrame ==
    UNCHANGED <<ledgerVars, now, procs, pidFile, lockFile, statusFile,
                emergencyFile, pc, outcome, lastSample, atShutdown, store,
                lastStore, deferred>>

\* new DataManager() in a fresh process: loadConfigWithIntegrityCheck().
ConfigBoot ==
    /\ config' = LoadConfig(configStore)
    /\ lastConfig' = [NoConfigOp EXCEPT !.kind = "boot"]
    /\ UNCHANGED configStore
    /\ ConfigFrame

\* setConfig(key, value), with what goes wrong with the write of config.json.
ConfigSet(key, value, fault) ==
    LET r == SetConfig(config, configStore, key, value, fault)
    IN  /\ configStore.backupCount < MaxConfigBackups
        /\ key \notin ConfigKeys => fault = "none"
        /\ config' = r.config
        /\ configStore' = r.store
        /\ lastConfig' = [kind |-> "set", key |-> key, value |-> value,
                          returned |-> r.returned, save |-> r.save]
        /\ ConfigFrame

NextConfig ==
    \/ ConfigBoot
    \/ \E key \in ConfigKeys \cup {UnknownKey}, value \in BOOLEAN, fault \in Faults :
            ConfigSet(key, value, fault)

\* start() called once by each caller.
StartOnce(c) == outcome[c] = "none" /\ CmdStart(c, TRUE)

StartSteps(c, keep) ==
    \/ StartLock(c, keep)
    \/ StartDoubleCheck(c, keep)
    \/ StartSpawn(c)
    \/ StartWaitDone(c, keep)
    \/ StartTimeout(c, keep)
    \/ StartFail(c)

\* isAlreadyRunning called on any process table and PID file it may find:
\* daemons at any point of their life, started by start() or by hand with
\* --daemon, ended by stop() or from outside, and a PID file that names
\* none, a live or a dead one of them.
InitRunning ==
    /\ InitData
    /\ config = DefaultConfig
    /\ now = T0930
    /\ procs \in [Pids -> {NoProc, SpawnedProc, RunningProc, DeadProc}]
    /\ pidFile \in {NoPid} \cup Pids
    /\ lockFile = FALSE
    /\ statusFile = (\E d \in Pids : procs[d].state = "running")
    /\ emergencyFile = NoEmergency
    /\ pc = [c \in Callers |-> "idle"]
    /\ outcome = [c \in Callers |-> "none"]
    /\ lastSample = NoSample
    /\ atShutdown = NoShutdown
    /\ store = NoStore
    /\ lastStore = NoStoreOp
    /\ configStore = NoConfigStore
    /\ lastConfig = NoConfigOp
    /\ deferred = NoDeferred

NextRunning ==
    \/ \E c \in Callers : CmdStop(c, TRUE)
    \/ \E c \in Callers : StopTerm(c)
    \/ \E c \in Callers : StopKill(c, TRUE)

NextStart ==
    \/ CliLog(now)
    \/ \E c \in Callers : StartOnce(c)
    \/ \E c \in Callers : StartSteps(c, TRUE)
    \/ \E d \in Pids : DaemonStart(d)

\* Two CLI-side processes and the daemons they start and stop.
NextSupervisor ==
    \/ \E c \in Callers : CmdStart(c, FALSE)
    \/ \E c \in Callers : StartSteps(c, FALSE)
    \/ \E c \in Callers : CmdStop(c, FALSE)
    \/ \E c \in Callers : StopTerm(c)
    \/ \E c \in Callers : StopKill(c, FALSE)
    \/ \E d \in Pids : DaemonStart(d)
    \/ \E d \in Pids, isActive \in Samples : DaemonSessionSample(d, isActive)
    \/ \E d \in Pids, isLocked \in Samples : DaemonLockSample(d, isLocked)
    \/ \E d \in Pids : DaemonPersistSave(d)
    \/ \E d \in Pids : DaemonStopKill(d)

\* One CLI-side process starting and stopping the daemon, pulse log, and the
\* daemon's session monitor.
NextSession ==
    \/ CliLog(now)
    \/ \E c \in SessionCallers : CmdStart(c, FALSE)
    \/ \E c \in SessionCallers : StartSteps(c, FALSE)
    \/ \E c \in SessionCallers : CmdStop(c, FALSE)
    \/ \E c \in SessionCallers : StopTerm(c)
    \/ \E c \in SessionCallers : StopKill(c, FALSE)
    \/ \E d \in Pids : DaemonStart(d)
    \/ \E d \in Pids, isActive \in Samples : DaemonSessionSample(d, isActive)
    \/ \E d \in Pids, isLocked \in Samples : DaemonLockSample(d, isLocked)
    \/ \E d \in Pids : DaemonPersistSave(d)
    \/ \E d \in Pids : DaemonStopKill(d)

\* One CLI-side process starting the daemon, the daemon's session monitor,
\* and the clock.
NextMarkers ==
    \/ \E c \in SessionCallers : CmdStart(c, FALSE)
    \/ \E c \in SessionCallers : StartSteps(c, FALSE)
    \/ \E d \in Pids : DaemonStart(d)
    \/ \E d \in Pids, isActive \in Samples : DaemonSessionSample(d, isActive)
    \/ \E d \in Pids, isLocked \in Samples : DaemonLockSample(d, isLocked)
    \/ \E d \in Pids : DaemonPersistSave(d)
    \/ \E d \in Pids : DaemonStopKill(d)
    \/ Tick

\* The votes evaluateLockState is given: what the three macOS probes
\* produce, and every list of up to MaxVotes votes with these confidences.
MaxVotes == 1
Confidences == {0, 1, 3, 5, 6, 7, 8, 9, 10}
Votes == [locked : BOOLEAN, confidence : Confidences]
ProbedResults ==
    {LockCheckResults(s, b, dsp, u) : s \in ProbeOutcomes, b \in ProbeOutcomes,
                                     dsp \in ProbeOutcomes, u \in ProbeOutcomes}
VoteLists == ProbedResults \cup UNION {[1..n -> Votes] : n \in 1..MaxVotes}

\* One CLI-side process starting the daemon, and the daemon's session
\* monitor with its probes.
NextProbes ==
    \/ \E c \in SessionCallers : CmdStart(c, FALSE)
    \/ \E c \in SessionCallers : StartSteps(c, FALSE)
    \/ \E d \in Pids : DaemonStart(d)
    \/ \E d \in Pids, probe \in ProbeOutcomes : DaemonMacSessionCycle(d, probe)
    \/ \E d \in Pids : DaemonLockCycleStart(d)
    \/ \E d \in Pids, session \in ProbeOutcomes, locker \in ProbeOutcomes :
            DaemonLinuxLockSettled(d, session, locker)
    \/ \E d \in Pids, results \in VoteLists : DaemonMacLockSettled(d, results)
    \/ \E d \in Pids : DaemonMacLockTimeout(d)
    \/ \E d \in Pids, results \in ProbedResults : DaemonMacLockLate(d, results)
    \/ \E d \in Pids : DaemonPersistSave(d)
    \/ \E d \in Pids : DaemonStopKill(d)

\* One CLI-side process that runs the session monitor and pulse start and
\* stop, and the daemon with its own monitor.
NextUnlock ==
    \/ \E c \in SessionCallers : CliHandleUnlock(c)
    \/ \E c \in SessionCallers : CmdStart(c, FALSE)
    \/ \E c \in SessionCallers : StartSteps(c, FALSE)
    \/ \E c \in SessionCallers : CmdStop(c, FALSE)
    \/ \E c \in SessionCallers : StopTerm(c)
    \/ \E c \in SessionCallers : StopKill(c, FALSE)
    \/ \E d \in Pids : DaemonStart(d)
    \/ \E d \in Pids, isLocked \in Samples : DaemonLockSample(d, isLocked)
    \/ \E d \in Pids : DaemonPersistSave(d)
    \/ \E d \in Pids : DaemonStopKill(d)

Next ==
    \/ NextLedger \/ NextSupervisor \/ NextSession \/ NextStore \/ NextBackups
    \/ NextConfig \/ NextMarkers \/ NextUnlock \/ NextLoad
    \/ NextProbes \/ NextOverride

Spec == Init /\ [][Next]_vars

SpecLedger == InitLedger /\ [][NextLedger]_vars

SpecLog == InitLedger /\ [][NextLog]_vars

\* Two callers of start(), no daemon running, pulse log going on.
SpecStart == InitLedger /\ [][NextStart]_vars

\* CLI start/stop against the daemon, under every configuration of the flags.
SpecSupervisor == InitSystem /\ [][NextSupervisor]_vars

\* The daemon's session monitor and the ledger, with the stop flags set.
SpecSession == InitSession /\ [][NextSession]_vars

\* The session monitor and the ledger as time passes.
SpecMarkers == InitSession /\ [][NextMarkers]_vars

\* Unlock events in the daemon and in a CLI-side monitor, under every
\* configuration of the flags.
SpecUnlock == InitSystem /\ [][NextUnlock]_vars

\* isAlreadyRunning and stop() on every process table and PID file.
SpecRunning == InitRunning /\ [][NextRunning]_vars

\* The edit sessions with the duration overrides observed.
SpecOverride == InitOverride /\ [][NextOverride]_vars

\* The session monitor's probes in the daemon.
SpecProbes == InitSession /\ [][NextProbes]_vars

\* One DataManager, its files and their faults.
SpecStore == InitStore /\ [][NextStore]_vars

\* One process started on an activities file with incomplete records.
SpecLoad == InitLoad /\ [][NextLoad]_vars

\* One DataManager whose writes all succeed.
SpecBackups == InitStore /\ [][NextBackups]_vars

\* setConfig against config.json and its backups.
SpecConfig == InitLedger /\ [][NextConfig]_vars

(***************************************************************************)
(* Ledger properties                                                       *)
(***************************************************************************)
Sorted(acts) ==
    \A i \in 1..Len(acts), j \in 1..Len(acts) :
        i < j => acts[i].timestampEnd <= acts[j].timestampEnd

\* The duration recompute rule: each entry's duration spans the gap to its
\* successor, and the last entry's duration is 0.
RecomputeRule(acts) ==
    /\ \A i \in 1..(Len(acts) - 1) :
          DurationMinutes(acts[i]) =
              Max(0, (acts[i + 1].timestampEnd - acts[i].timestampEnd)
                        \div SecondsPerMinute)
    /\ Len(acts) > 0 => DurationMinutes(acts[Len(acts)]) = 0

DurationsOf(acts) == [i \in 1..Len(acts) |-> DurationMinutes(acts[i])]

\* C1: after every append (at any end timestamp), update (also of
\* timestampEnd) and delete, the ledger is sorted non-decreasing by
\* timestampEnd.
C1_LedgerSorted == Sorted(activities)

\* C1 witness: a timestamp edit has acted on a ledger in which an entry
\* created later stands before an entry created earlier.
C1_Witness ==
    /\ lastOp.kind = "update_time"
    /\ \E i \in 1..(Len(activities) - 1) : activities[i].id > activities[i + 1].id

ScenarioABC ==
    /\ ~explicit
    /\ nextId = 4
    /\ Len(activities) = 3
    /\ [i \in 1..3 |-> activities[i].id] = <<1, 2, 3>>
    /\ [i \in 1..3 |-> activities[i].activity] = <<"A", "B", "C">>
    /\ [i \in 1..3 |-> activities[i].timestampEnd] = <<T0900, T0930, T1015>>

C10_DeleteBridgesGap ==
    (lastOp.kind = "delete" /\ lastOp.idx >= 2 /\ lastOp.idx <= Len(activities)) =>
        DurationMinutes(activities[lastOp.idx - 1]) =
            Max(0, (activities[lastOp.idx].timestampEnd
                      - activities[lastOp.idx - 1].timestampEnd) \div SecondsPerMinute)

\* C10 witness: a middle entry was deleted and its predecessor's duration
\* spans a positive gap.
C10_Witness ==
    /\ lastOp.kind = "delete" /\ lastOp.idx >= 2 /\ lastOp.idx <= Len(activities)
    /\ DurationMinutes(activities[lastOp.idx - 1]) > 0

(***************************************************************************)
(* Supervisor and session monitor properties                               *)
(***************************************************************************)
RECURSIVE IsSubsequence(_, _)
\* Every entry of s occurs in t, in the same order.
IsSubsequence(s, t) ==
    IF s = <<>> THEN TRUE
    ELSE IF t = <<>> THEN FALSE
    ELSE IF Head(s) = Head(t) THEN IsSubsequence(Tail(s), Tail(t))
    ELSE IsSubsequence(s, Tail(t))

NoDuplicates(acts) == Cardinality(IdsOf(acts)) = Len(acts)

\* C4: after a completed session-triggered stop sequence (marker, emergency
\* backup, save, stop) and the next daemon startup, the ledger loaded at
\* that startup holds every entry of the ledger saved at shutdown, in the
\* same order, and holds no entry twice.
C4_RestartKeepsLedger ==
    atShutdown.phase = "restarted" =>
        /\ IsSubsequence(atShutdown.activities, atShutdown.loaded)
        /\ NoDuplicates(atShutdown.loaded)

\* C4 witness: a daemon has started after a stop sequence that saved at
\* least two entries, and pulse log has added to the file in between.
C4_Witness ==
    /\ atShutdown.phase = "restarted"
    /\ Len(atShutdown.activities) >= 2
    /\ Len(atShutdown.loaded) > Len(atShutdown.activities)

AllDone == \A c \in Callers : pc[c] = "idle" /\ outcome[c] # "none"

\* C5: when two callers have called start() concurrently with no daemon
\* running, exactly one daemon process exists once both calls are over (and
\* it is running once it has booted), only one child was ever spawned, and
\* the caller that did not spawn it got the already-running error or the
\* lock-file race error.
C5_TwoStartsOneDaemon ==
    AllDone =>
        /\ Cardinality(PsDaemons(procs)) = 1
        /\ Cardinality({d \in Pids : procs[d].state # "none"}) = 1
        /\ \A d \in Pids : procs[d].state \in {"none", "spawned", "running"}
        /\ \E c \in Callers :
              /\ outcome[c] \in {"started", "timeout"}
              /\ \A e \in Callers \ {c} : outcome[e] \in {"already_running", "lock_race"}

\* C5 witness: both calls are over, one of them lost the race for the lock
\* file, and the daemon is running.
C5_Witness ==
    /\ AllDone
    /\ \E c \in Callers : outcome[c] = "lock_race"
    /\ \E d \in Pids : procs[d].state = "running"

\* C6: in every reachable state at most one daemon process is alive.
C6_AtMostOneDaemon == Cardinality(PsDaemons(procs)) <= 1

\* C6 witness: a daemon is running, started after an earlier one was
\* stopped, while a CLI-side process that saw no daemon holds the lock file.
C6_Witness ==
    /\ \E d \in Pids : procs[d].state = "running"
    /\ \E d \in Pids : procs[d].state = "dead"
    /\ \E c \in Callers : pc[c] = "locked"

\* The value of the state variable the last sample was delivered to.
StoredState ==
    IF lastSample.kind = "session" THEN procs[lastSample.pid].lastSessionState
    ELSE procs[lastSample.pid].lastLockState

\* The directional event of a sample.
Direction(kind, sample) ==
    IF kind = "session" THEN (IF sample = "true" THEN "login" ELSE "logout")
    ELSE (IF sample = "true" THEN "lock" ELSE "unlock")

\* C7: the first sample of either state variable becomes the stored value,
\* fires no event and calls no handler.
C7_FirstSampleAbsorbed ==
    (lastSample.kind # "none" /\ lastSample.previous = Null) =>
        /\ lastSample.events = <<>>
        /\ lastSample.handlers = <<>>
        /\ StoredState = lastSample.sample
        /\ procs[lastSample.pid].state = "running"

\* C7 witness: the first lock sample of a daemon says locked.
C7_Witness ==
    /\ lastSample.kind = "lock"
    /\ lastSample.previous = Null
    /\ lastSample.sample = "true"

\* C8: a later sample equal to the stored value fires no event and leaves
\* the value; a differing one fires exactly one event, of its direction,
\* and becomes the stored value.
C8_LaterSamples ==
    (lastSample.kind # "none" /\ lastSample.previous # Null) =>
        IF lastSample.sample = lastSample.previous
        THEN /\ lastSample.events = <<>>
             /\ lastSample.handlers = <<>>
             /\ StoredState = lastSample.previous
        ELSE /\ lastSample.events = <<Direction(lastSample.kind, lastSample.sample)>>
             /\ StoredState = lastSample.sample

\* C8 witness: a session sample says inactive after an active one.
C8_Witness ==
    /\ lastSample.kind = "session"
    /\ lastSample.previous = "true"
    /\ lastSample.sample = "false"
    /\ lastSample.events = <<"logout">>

\* A lock event is handled by daemon d in this step.
LockEventStep(d) ==
    /\ lastSample'.kind = "lock"
    /\ lastSample'.pid = d
    /\ lastSample'.events = <<"lock">>

\* new is old, or old with one pause marker inserted.
AtMostOnePauseAdded(old, new) ==
    \/ new = old
    \/ \E i \in 1..Len(new) : IsPause(new[i]) /\ SpliceOut(new, i - 1) = old

\* C9: with autoStopOnLock and autoStartOnUnlock set, a lock event handled
\* in the daemon leaves the daemon running with its timers scheduled, leaves
\* the PID file as it is, changes the daemon's ledger by at most one added
\* pause marker, and signals no process (stop() is not called).
C9_LockKeepsDaemon ==
    [][\A d \in Pids :
          (LockEventStep(d) /\ config.autoStopOnLock /\ config.autoStartOnUnlock) =>
              /\ procs'[d].state = "running"
              /\ procs'[d].job /\ procs'[d].statusInterval
              /\ pidFile' = pidFile
              /\ AtMostOnePauseAdded(procs[d].activities, procs'[d].activities)
              /\ \A e \in Pids \ {d} : procs'[e] = procs[e]]_vars

\* C9 witness: the daemon has just handled a lock event with both flags set
\* and added the pause marker after earlier entries; it is running and the
\* PID file names it.
C9_Witness ==
    /\ lastSample.kind = "lock"
    /\ lastSample.events = <<"lock">>
    /\ config.autoStopOnLock /\ config.autoStartOnUnlock
    /\ procs[lastSample.pid].state = "running"
    /\ pidFile = lastSample.pid
    /\ Len(procs[lastSample.pid].activities) >= 2
    /\ IsPause(procs[lastSample.pid].activities[Len(procs[lastSample.pid].activities)])

(***************************************************************************)
(* Serialization round trip                                                *)
(***************************************************************************)
\* C11: saving the ledger and loading it back gives a ledger of the same
\* length, equal position by position in id, timestampStart, timestampEnd
\* and description.
C11_RoundTrip ==
    LET loaded == LoadActivities(SerializeActivities(activities))
    IN  /\ Len(loaded) = Len(activities)
        /\ \A i \in 1..Len(activities) :
              /\ loaded[i].id = activities[i].id
              /\ loaded[i].timestampStart = activities[i].timestampStart
              /\ loaded[i].timestampEnd = activities[i].timestampEnd
              /\ loaded[i].activity = activities[i].activity
        /\ LoadActivities(activitiesFile) = activities

\* C11 witness: a ledger of three entries, out of id order after an edit of
\* a time, one of them with a start different from its end.
C11_Witness ==
    /\ Len(activities) = 3
    /\ lastOp.kind = "update_time"
    /\ activities[1].id > activities[2].id
    /\ \E i \in 1..3 : activities[i].timestampStart # activities[i].timestampEnd

(***************************************************************************)
(* Appends                                                                 *)
(***************************************************************************)
\* C19: after appends without an explicit duration, in any timestamp order,
\* every entry starts at the end of the entry preceding it in the ledger,
\* and the first entry starts at 00:00 of its own day.
C19_StartsChained ==
    ~explicit =>
        \A i \in 1..Len(activities) :
            activities[i].timestampStart =
                IF i = 1 THEN DayStart(activities[i].timestampEnd)
                ELSE activities[i - 1].timestampEnd

\* The entries of a ledger without their start times.
Identity(acts) ==
    [i \in 1..Len(acts) |->
        [id |-> acts[i].id, activity |-> acts[i].activity,
         timestampEnd |-> acts[i].timestampEnd]]

\* C20: an append of a description grows the ledger by exactly one entry,
\* which carries a fresh id and that description, and leaves the id,
\* description and timestampEnd of every earlier entry as they were.
C20_AppendAddsOne ==
    [][\A activity \in Descriptions, timestampEnd \in Times,
          durationMinutes \in OverrideMinutes \cup {NoValue} :
            CmdLog(activity, timestampEnd, durationMinutes) =>
                /\ Len(activities') = Len(activities) + 1
                /\ \E k \in 1..Len(activities') :
                      /\ activities'[k].id = nextId
                      /\ activities'[k].activity = activity
                      /\ activities'[k].timestampEnd = timestampEnd
                      /\ Identity(SpliceOut(activities', k - 1)) = Identity(activities)]_vars

\* C20 witness: the third append went between the two earlier entries.
C20_Witness ==
    /\ lastOp.kind = "append"
    /\ Len(activities) = 3
    /\ activities[2].id = 3
    /\ activities[1].activity # activities[2].activity

(***************************************************************************)
(* Persistence properties                                                  *)
(***************************************************************************)
\* C12: updateActivity and deleteActivity with an id the ledger does not
\* hold throw to the caller and leave the ledger in memory, the activities
\* file and the backups as they were.
C12_NotFoundNoChange ==
    [][\A id \in 1..MaxStoreIds :
          (/\ id \notin IdsOf(activities)
           /\ \/ \E updates \in StorePatches :
                    StoreEdit(id, updates, "none", MaxStoreBackups)
              \/ StoreDelete(id, "none", MaxStoreBackups))
          => /\ lastStore'.result = "threw"
             /\ UNCHANGED <<activities, activitiesFile, store>>]_vars

\* C12 witness: a delete of an unknown id has thrown while the ledger holds
\* an entry and a backup exists.
C12_Witness ==
    /\ lastStore.kind = "delete"
    /\ lastStore.result = "threw"
    /\ Len(activities) >= 1
    /\ store.backupCount >= 1

\* The step is a construction of a DataManager.
BootStep == lastStore'.kind = "boot"

\* The ledger of the activities file.
OnDisk == IF store.file = "ok" THEN LoadActivities(activitiesFile) ELSE <<>>

\* The recovery criteria, as the specification words them.
Criteria ==
    /\ ~IsDaemonRunning(procs, pidFile)
    /\ \/ emergencyFile.newer \/ store.file = "missing"
       \/ Len(OnDisk) < emergencyFile.activitiesCount - 1

C14_NoRecovery ==
    [][(BootStep /\ emergencyFile.exists /\ ~Criteria) =>
          /\ IF IsDaemonRunning(procs, pidFile)
             THEN emergencyFile' = emergencyFile
             ELSE ~emergencyFile'.exists
          /\ activities' = OnDisk]_vars

\* C14 witness: a startup beside a running daemon has kept the emergency
\* backup and loaded the ledger of the file.
C14_Witness ==
    /\ lastStore.kind = "boot"
    /\ emergencyFile.exists
    /\ IsDaemonRunning(procs, pidFile)
    /\ Len(activities) >= 1

\* C15: a startup on an activities file that is not valid JSON does not
\* fail; the ledger is the emergency backup's when one is present and the
\* criteria hold, and otherwise empty or the most recent backup's.
C15_CorruptFileAtStartup ==
    [][(BootStep /\ store.file = "corrupt") =>
          /\ lastStore'.result = "returned"
          /\ IF emergencyFile.exists /\ Criteria
             THEN activities' = LoadActivities(emergencyFile.activities)
             ELSE \/ activities' = <<>>
                  \/ /\ store.backupCount > 0 /\ store.latest.valid
                     /\ activities' = LoadActivities(store.latest.data)]_vars

\* C15 witness: a startup has found the file corrupt and recovered two
\* entries from the emergency backup.
C15_Witness ==
    /\ lastStore.kind = "boot"
    /\ lastStore.seen = "corrupt"
    /\ lastStore.save = "saved"
    /\ Len(activities) >= 2

\* The number of backups the specification keeps per logical file.
MaxKeptBackups == 5

\* C16: after every write of the ledger at most five backups of the
\* activities file exist.
C16_AtMostFiveBackups == store.backupCount <= MaxKeptBackups

\* The backup that sorts last once createBackup has run.
BackupAfterCopy ==
    IF store.file # "missing"
    THEN [valid |-> store.file = "ok", data |-> activitiesFile]
    ELSE store.latest

\* C17: when a write fails its verification and a backup exists, the
\* activities file becomes the most recent backup and the ledger in memory
\* is that backup's contents.
C17_FailedWriteRestores ==
    [][(/\ lastStore'.kind \in {"log", "edit", "delete"}
        /\ lastStore'.fault # "none"
        /\ (store.file # "missing" \/ store.backupCount > 0)) =>
          /\ activitiesFile' = BackupAfterCopy.data
          /\ store'.file = (IF BackupAfterCopy.valid THEN "ok" ELSE "corrupt")
          /\ activities' = (IF BackupAfterCopy.valid
                            THEN LoadActivities(BackupAfterCopy.data) ELSE <<>>)]_vars

\* C17 witness: a delete whose write failed has been undone from the backup.
C17_Witness ==
    /\ lastStore.kind = "delete"
    /\ lastStore.fault = "mismatch"
    /\ lastStore.save = "restored"
    /\ Len(activities) >= 1
    /\ store.file = "ok"

\* C18: when a write fails and no backup exists, the ledger in memory is
\* kept and the caller of the mutating call is told of the failure.
C18_FailureSurfaced == lastStore.save = "kept" => lastStore.result = "threw"

(***************************************************************************)
(* Configuration properties                                                *)
(***************************************************************************)
\* C21: setConfig with an unknown key returns false and changes neither the
\* config in memory nor the config file; with a known key it returns true
\* and getConfig(key) then returns the value.
C21_SetConfigKnownKeys ==
    [][\A key \in ConfigKeys \cup {UnknownKey}, value \in BOOLEAN, fault \in Faults :
          ConfigSet(key, value, fault) =>
              IF key \in ConfigKeys
              THEN lastConfig'.returned /\ GetConfig(config', key) = value
              ELSE /\ ~lastConfig'.returned
                   /\ UNCHANGED <<config, configStore>>]_vars

(***************************************************************************)
(* The daemon and the CLI on one ledger file                               *)
(***************************************************************************)
\* The ids of the entries of the activities file.
IdsOnDisk(file) == IdsOf(LoadActivities(file))

\* The daemon d handles a sample or finishes its stop sequence in this step.
DaemonSaveStep(d) ==
    \/ \E isActive \in Samples : DaemonSessionSample(d, isActive)
    \/ \E isLocked \in Samples : DaemonLockSample(d, isLocked)
    \/ DaemonPersistSave(d)

\* C22: an entry that pulse log wrote to the activities file while the
\* daemon was running is still in the file after the daemon appends a pause
\* or resume marker, or runs its stop sequence, and saves.
C22_DaemonSaveKeepsCliEntries ==
    [][\A d \in Pids :
          DaemonSaveStep(d) => IdsOnDisk(activitiesFile) \subseteq IdsOnDisk(activitiesFile')]_vars

(***************************************************************************)
(* Session handlers                                                        *)
(***************************************************************************)
\* No two adjacent entries are both pause markers or both resume markers.
NoTwinMarkers(acts) ==
    \A i \in 1..(Len(acts) - 1) :
        /\ ~(IsPause(acts[i]) /\ IsPause(acts[i + 1]))
        /\ ~(IsResume(acts[i]) /\ IsResume(acts[i + 1]))

\* C24: marker appends are idempotent for every ledger: the ledger of a
\* daemon never holds two consecutive pause markers or two consecutive
\* resume markers.
C24_NoConsecutiveMarkers ==
    \A d \in Pids : NoTwinMarkers(procs[d].activities)

\* A logout event is handled by daemon d in this step.
LogoutEventStep(d) ==
    /\ lastSample'.kind = "session"
    /\ lastSample'.pid = d
    /\ lastSample'.events = <<"logout">>

\* The step has run the stop sequence of daemon d up to the call of stop():
\* at most one pause marker was added and the ledger ends with one, the
\* emergency backup holds the whole ledger with the marker, and stop() has
\* signalled nothing yet: the daemon is alive, the PID file is as it was and
\* no other process has changed.
StopSequenceBegun(d) ==
    LET acts == procs'[d].activities
    IN  /\ AtMostOnePauseAdded(procs[d].activities, acts)
        /\ Len(acts) > 0 /\ IsPause(acts[Len(acts)])
        /\ emergencyFile'.exists
        /\ LoadActivities(emergencyFile'.activities) = acts
        /\ emergencyFile'.activitiesCount = Len(acts)
        /\ procs'[d].state = "persisting"
        /\ pidFile' = pidFile
        /\ \A e \in Pids \ {d} : procs'[e] = procs[e]

\* C23: on a logout event with autoStopOnLogout set, the daemon appends the
\* pause marker unless the last entry is one, then writes the emergency
\* backup of the whole ledger including the marker, and calls stop() only
\* after both: stop() signals from the state the sequence has left.
C23_LogoutStopSequence ==
    [][\A d \in Pids :
          /\ (LogoutEventStep(d) /\ config.autoStop) => StopSequenceBegun(d)
          /\ (procs[d].state = "running" /\ procs'[d].state = "terminating")
                => ~(LogoutEventStep(d) \/ LockEventStep(d))]_vars

\* C23 witness: the daemon has handled a logout event, added the marker
\* after an earlier entry and written the emergency backup of both; it has
\* not called stop() yet.
C23_Witness ==
    /\ lastSample.events = <<"logout">>
    /\ config.autoStop
    /\ procs[lastSample.pid].state = "persisting"
    /\ emergencyFile.exists
    /\ emergencyFile.activitiesCount >= 2
    /\ IsPause(procs[lastSample.pid].activities[Len(procs[lastSample.pid].activities)])

\* C26: on a lock event with autoStopOnLock set and autoStartOnUnlock not
\* set, the daemon runs the sequence of the logout handler: pause marker
\* unless the last entry is one, emergency backup, and stop() afterwards.
C26_LockStopSequence ==
    [][\A d \in Pids :
          (LockEventStep(d) /\ config.autoStopOnLock /\ ~config.autoStartOnUnlock)
              => StopSequenceBegun(d)]_vars

\* C26 witness: the daemon has handled a lock event with autoStartOnUnlock
\* unset, added the lock marker and written the emergency backup.
C26_Witness ==
    /\ lastSample.events = <<"lock">>
    /\ config.autoStopOnLock /\ ~config.autoStartOnUnlock
    /\ procs[lastSample.pid].state = "persisting"
    /\ emergencyFile.exists
    /\ emergencyFile.activitiesCount >= 1
    /\ procs[lastSample.pid].activities[Len(procs[lastSample.pid].activities)].activity
          = PauseLocked

\* An unlock event is handled by daemon d in this step.
UnlockEventStep(d) ==
    /\ lastSample'.kind = "lock"
    /\ lastSample'.pid = d
    /\ lastSample'.events = <<"unlock">>

\* new is old, or old with one resume marker inserted.
AtMostOneResumeAdded(old, new) ==
    \/ new = old
    \/ \E i \in 1..Len(new) : IsResume(new[i]) /\ SpliceOut(new, i - 1) = old

\* C25: on an unlock event with autoStartOnUnlock set, the daemon calls no
\* start() and spawns no process, and changes nothing but its ledger, by at
\* most one resume marker; a process that is not the daemon calls start()
\* if and only if no daemon is running.
C25_UnlockStartsOnlyOutsideDaemon ==
    [][/\ \A d \in Pids :
            (UnlockEventStep(d) /\ config.autoStartOnUnlock) =>
                /\ AtMostOneResumeAdded(procs[d].activities, procs'[d].activities)
                /\ \A e \in Pids : procs'[e].state = procs[e].state
                /\ UNCHANGED <<pidFile, lockFile, pc>>
       /\ \A c \in SessionCallers :
            (CliHandleUnlock(c) /\ config.autoStartOnUnlock) =>
                (pc'[c] = "called" <=> ~IsAlreadyRunning(procs, pidFile))]_vars

\* C25 witness: the daemon has handled an unlock event and added the resume
\* marker after the pause marker; it is the only process.
C25_Witness ==
    /\ lastSample.events = <<"unlock">>
    /\ lastSample.pid # NoPid
    /\ config.autoStartOnUnlock
    /\ procs[lastSample.pid].state = "running"
    /\ Len(procs[lastSample.pid].activities) >= 2
    /\ IsResume(procs[lastSample.pid].activities[Len(procs[lastSample.pid].activities)])
    /\ Cardinality(PsDaemons(procs)) = 1


\* The step at which the stop() of caller c returns.
StopReturns(c) == pc[c] \in {"stop_term", "stop_kill"} /\ pc'[c] = "idle"

\* C27: when stop() returns, no daemon is left in the process table, the
\* process the PID file named is not alive, and neither the PID file nor
\* the status file exists.
C27_StopLeavesNothing ==
    [][\A c \in Callers :
          StopReturns(c) =>
              /\ PsDaemons(procs') = {}
              /\ ~ProcessExists(procs', pidFile)
              /\ pidFile' = NoPid
              /\ ~statusFile']_vars

\* C27 witness: a daemon had started and written its marker and its status
\* file; a stop() has returned, the daemon is dead and both files are gone.
C27_Witness ==
    /\ \A c \in Callers : pc[c] = "idle"
    /\ \E d \in Pids : procs[d].state = "dead"
    /\ activitiesFile # <<>>
    /\ PsDaemons(procs) = {}
    /\ pidFile = NoPid
    /\ ~statusFile


\* C28: when the daemon runs stop() itself, it has cancelled its check-in
\* job and its status timer and removed its PID file and its status file
\* by the time the process has exited.
C28_DaemonStopCleansUp ==
    [][\A d \in Pids :
          DaemonStopKill(d) =>
              /\ ~procs'[d].job
              /\ ~procs'[d].statusInterval
              /\ pidFile' # d
              /\ ~statusFile']_vars


\* The positions of start() at which the caller holds the lock file it created.
LockHeld == {"locked", "spawn", "wait", "failed"}

C30_LivePidFileKept ==
    [][\A d \in Pids :
          (pidFile = d /\ procs[d].state = "running" /\ procs'[d].state = "running") =>
              pidFile' = d]_vars


\* C31: when a start() that timed out waiting for the PID file has thrown,
\* the child it spawned is not alive: no live daemon is left without a PID
\* file naming it.
C31_FailedStartLeavesNoDaemon ==
    [][\A c \in Callers :
          (StartFail(c) /\ outcome[c] = "timeout") =>
              \A d \in PsDaemons(procs') : pidFile' = d]_vars


\* C32: isAlreadyRunning answers true exactly when the process of the PID
\* file is alive or the process table lists a daemon, and a call that finds
\* a PID file naming a process that is not alive leaves no PID file.
C32_IsRunningAndStalePidFile ==
    [][\A c \in Callers :
          CmdStop(c, TRUE) =>
              /\ pc'[c] = "stop_term" <=>
                    (IsDaemonRunning(procs, pidFile) \/ PsDaemons(procs) # {})
              /\ (pidFile # NoPid /\ ~ProcessExists(procs, pidFile)) =>
                    pidFile' = NoPid]_vars


\* C32 as the code has it: the answer is true exactly when the process
\* table lists a daemon or the process of the PID file is alive; the PID
\* file is examined only when no daemon is listed, and then a PID file
\* naming a process that is not alive is removed; when a daemon is listed
\* the PID file stays as it is.
C32_StalePidFileWhenNoneListed ==
    [][\A c \in Callers :
          CmdStop(c, TRUE) =>
              /\ pc'[c] = "stop_term" <=>
                    (IsDaemonRunning(procs, pidFile) \/ PsDaemons(procs) # {})
              /\ (PsDaemons(procs) = {} /\ pidFile # NoPid /\ ~ProcessExists(procs, pidFile)) =>
                    pidFile' = NoPid
              /\ PsDaemons(procs) # {} => pidFile' = pidFile]_vars

\* C32 witness: a call has answered true because a daemon is listed, and
\* the PID file it left names a process that is not alive.
C32_Witness ==
    \E c \in Callers :
        /\ pc[c] = "stop_term"
        /\ PsDaemons(procs) # {}
        /\ pidFile # NoPid
        /\ ~ProcessExists(procs, pidFile)


\* A stored record with every required field.
CompleteRecord(data) ==
    /\ data.id # NoValue
    /\ data.timestampStart # NoIso
    /\ data.timestampEnd # NoIso
    /\ data.activity # ""

\* C33: the ledger new DataManager() loads (no emergency backup around)
\* holds exactly the complete records of the file, in the order of the
\* file, and when a record was left out the save of the cleaned ledger is
\* scheduled.
C33_IncompleteRecordsExcluded ==
    [][(StoreBoot /\ ~emergencyFile.exists) =>
          /\ activities' = LoadActivities(SelectSeq(activitiesFile, CompleteRecord))
          /\ (\E i \in 1..Len(activitiesFile) : ~CompleteRecord(activitiesFile[i])) =>
                deferred'.pending]_vars


\* The ledger was given a new state after the load: emergency recovery in
\* the constructor, or a command that ran since.
ChangedSinceLoad ==
    \/ lastStore.kind = "boot" /\ lastStore.save # "none"
    \/ lastStore.kind \in {"log", "clear"}

\* C34: the scheduled save of the cleaned ledger that runs after emergency
\* recovery, an append or a clear leaves the ledger in memory and the
\* ledger on disk as they were.
C34_DeferredSaveKeepsLaterState ==
    [][(DeferredSave("none", MaxStoreBackups) /\ ChangedSinceLoad) =>
          /\ activities' = activities
          /\ activitiesFile' = activitiesFile]_vars


\* C35: a polling cycle whose probe command failed (the session probe on
\* macOS, the loginctl probe on Linux) leaves the daemon in the state it was
\* in: the failure never starts the stop sequence.
C35_FailedProbeNeverStops ==
    [][\A d \in Pids :
          (\/ DaemonMacSessionCycle(d, "failed")
           \/ \E locker \in ProbeOutcomes : DaemonLinuxLockSettled(d, "failed", locker))
          => procs'[d].state = procs[d].state]_vars

\* The stop sequence of daemon d has begun.
Stopping(d) == procs[d].state \in {"persisting", "terminating"}

\* The step delivers a lock sample to handleLockStateChange in daemon d.
LockSampleDelivered(d) == lastSample'.kind = "lock" /\ lastSample'.pid = d

\* C36: the result of a lock probe that was in flight when the daemon began
\* to stop is discarded: it leaves the stored lock state as it was, fires no
\* event and runs no handler.
C36_InFlightResultDiscarded ==
    [][\A d \in Pids :
          (Stopping(d) /\ procs[d].lockCheck # "idle" /\ LockSampleDelivered(d)) =>
              /\ procs'[d].lastLockState = procs[d].lastLockState
              /\ lastSample'.events = <<>>
              /\ lastSample'.handlers = <<>>]_vars

\* C37: a lock polling cycle whose 5-second timer has fired has delivered
\* its one sample: the probes that settle later deliver no second one.
C37_OneSamplePerCycle ==
    [][\A d \in Pids : procs[d].lockCheck = "late" => ~LockSampleDelivered(d)]_vars


\* The sum of the confidences of the locked votes, and of all votes.
RECURSIVE LockedConfidence(_)
LockedConfidence(results) ==
    IF results = <<>> THEN 0
    ELSE (IF Head(results).locked THEN Head(results).confidence ELSE 0)
         + LockedConfidence(Tail(results))

RECURSIVE TotalConfidence(_)
TotalConfidence(results) ==
    IF results = <<>> THEN 0
    ELSE Head(results).confidence + TotalConfidence(Tail(results))

\* Some vote is a locked vote with confidence above 0.7, or the mean of the
\* locked flags weighted by the confidences exceeds 0.5.
WeightedMeanLocked(results) ==
    \/ \E i \in 1..Len(results) :
            results[i].locked /\ results[i].confidence > HighConfidence
    \/ 2 * LockedConfidence(results) > TotalConfidence(results)

\* C38: the sample a lock check delivers from a non-empty list of votes is
\* "locked" if and only if some locked vote has confidence above 0.7 or the
\* confidence-weighted mean locked-score exceeds 0.5.
C38_LockedIffWeightedMean ==
    [][\A d \in Pids, results \in VoteLists :
          DaemonMacLockSettled(d, results) =>
              (lastSample'.sample = "true" <=> WeightedMeanLocked(results))]_vars

\* C39: a lock check whose votes all say unlocked delivers the sample
\* "unlocked", and no lock event fires from it.
C39_AllUnlockedIsUnlocked ==
    [][\A d \in Pids, results \in VoteLists :
          (/\ DaemonMacLockSettled(d, results)
           /\ \A i \in 1..Len(results) : ~results[i].locked) =>
              /\ lastSample'.sample = "false"
              /\ lastSample'.events = <<>> \/ lastSample'.events = <<"unlock">>]_vars


\* The entry the last duration override was given to, as the ledger holds
\* it now, and the duration the recompute rule derives at its position.
Overridden == activities[FindIndexById(activities, override.id) + 1]

DerivedMinutes(acts, i) ==
    IF i < Len(acts)
    THEN Max(0, (acts[i + 1].timestampEnd - acts[i].timestampEnd) \div SecondsPerMinute)
    ELSE 0

====
